---- MODULE Spec2Model ----
(***************************************************************************)
(* Play-by-post session server: session lifecycle, roster, message channel *)
(* and inactivity sweeper, as implemented in src/server.                   *)
(*                                                                         *)
(* All request handlers and the sweeper share ONE aiosqlite connection     *)
(* (db.py: _db).  Every `await db.execute(...)` is therefore one atomic    *)
(* step on the shared store whose effect is immediately visible to every   *)
(* other coroutine (commit changes nothing that another coroutine can      *)
(* observe), and other coroutines' statements may run between two          *)
(* statements of one handler.  Each action below is one such statement     *)
(* together with the synchronous Python code that follows it up to the     *)
(* next await.                                                             *)
(***************************************************************************)
EXTENDS Integers, Sequences, FiniteSets, TLC

VARIABLES
    games,      \* table games:    game id -> row or NoRow
    players,    \* table players:  game id -> agent id -> row or NoRow
    messages,   \* table messages: rows in insertion (rowid) order
    now,        \* the wall clock read by datetime.now(timezone.utc), in ticks
    tokens,     \* number of session tokens issued so far (uuid4 = fresh)
    req,        \* request slot -> the handler coroutine running in it
    sw,         \* the inactivity sweeper coroutine
    kicked,     \* history: (game, agent) pairs whose membership was ever set kicked
    claimed,    \* history: <<message id, after>> of every accepted post that supplied after
    polled,     \* client side: the last poll response, and the log length it was taken at
    schema,     \* the columns of table games in the database file
    resolution  \* whether two readings of the wall clock always differ

vars == <<games, players, messages, now, tokens, req, sw, kicked, claimed, polled, schema, resolution>>

----------------------------------------------------------------------------
(* Bounds of the model                                                     *)

MaxMsgs == 4        \* handlers that append start only while fewer rows exist
MaxTime == 2        \* the clock stops ticking here
MaxTokens == 3      \* session tokens issued by join / invite
MaxLimit == 2       \* largest non-default `limit` a poll is tried with

----------------------------------------------------------------------------
(* Values                                                                  *)

Agents == {"dm", "a1", "a2"}          \* rows of table agents (registered)
Games == {"g1", "g2"}                 \* game ids that requests may name
Slots == {"r1", "r2"}                 \* concurrently handled requests

None == "None"                        \* Python None for agent ids and names
NoRow == [none |-> TRUE]              \* fetchone() returned no row
NoId == 0                             \* message id None; real ids are 1, 2, ..
NoToken == 0                          \* header absent; real tokens are 1, 2, ..
NoTime == -1                          \* started_at / completed_at NULL

Timeout == 2                          \* settings.game_inactivity_timeout_seconds, in ticks
DefaultLimit == 100                   \* Query(100, ge=1, le=500)
TranscriptLimit == 500                \* get_messages(game_id, limit=500)

\* db.SCHEMA, CREATE TABLE IF NOT EXISTS games: its columns.
SCHEMA_games == {"id", "name", "description", "dm_id", "status", "engine_type",
                 "engine_state", "config", "campaign_id", "created_at",
                 "started_at", "completed_at"}

VALID_MSG_TYPES == {"narrative", "action", "roll", "system", "ooc", "sheet"}

Min(a, b) == IF a < b THEN a ELSE b

----------------------------------------------------------------------------
(* channel.py                                                              *)

\* Rows of one game, in insertion order (WHERE game_id = ?).
GameMsgs(g) == SelectSeq(messages, LAMBDA m: m.game_id = g)

\* created_at is datetime.now(timezone.utc).isoformat(), a text with the
\* microseconds, and the texts compare as the instants do.  The clock of
\* the model counts ticks, the unit of the inactivity timeout; a timestamp
\* is the tick and the reading of the clock within the tick.
Stamp(t, n) == [t |-> t, n |-> n]

NoStamp == Stamp(-1, 0)

\* datetime.now(timezone.utc): the wall clock has a finite resolution and
\* nothing makes a reading differ from the one before.  On a host whose
\* clock is fine every reading is later than the last; on a host whose
\* clock is coarse the readings within one tick are equal.  The clock is
\* taken not to be set back.
datetime_now ==
    IF resolution = "fine" THEN Stamp(now, Len(messages) + 1) ELSE Stamp(now, 0)

Earlier(x, y) == x.t < y.t \/ (x.t = y.t /\ x.n < y.n)

\* ORDER BY created_at ASC over the index (game_id, created_at): rows with
\* equal created_at come out in rowid order.
Rank(s, i) ==
    1 + Cardinality({j \in 1..Len(s):
            \/ Earlier(s[j].created_at, s[i].created_at)
            \/ (s[j].created_at = s[i].created_at /\ j < i)})

\* ORDER BY created_at DESC: the newest row first.
OrderByCreatedAtDesc(s) ==
    [k \in 1..Len(s) |-> s[CHOOSE i \in 1..Len(s): Rank(s, i) = Len(s) + 1 - k]]

OrderByCreatedAt(s) ==
    [k \in 1..Len(s) |-> s[CHOOSE i \in 1..Len(s): Rank(s, i) = k]]

\* LIMIT ?
Limit(s, n) == SubSeq(s, 1, Min(Len(s), n))

\* A metadata dict is modelled by its set of keys and the value of its
\* "respond" entry (<<>> when the key is absent); the values of other keys
\* are not modelled.  NoMeta is Python's None, Meta({}, <<>>) the empty dict.
NoMeta == [none |-> TRUE, keys |-> {}, respond |-> <<>>]
Meta(keys, respond) == [none |-> FALSE, keys |-> keys, respond |-> respond]

\* bool(metadata): None and the empty dict are falsy.
truthy(metadata) == ~metadata.none /\ metadata.keys # {}

\* `json.dumps(metadata) if metadata else None`: the column value.
json_dumps(metadata) == IF truthy(metadata) THEN metadata ELSE NoMeta

\* image_url None.
NoImage == None

\* channel.post_message: INSERT INTO messages with a fresh uuid4 id and
\* created_at = now.  to_agents and metadata are stored as NULL when falsy.
NewMessage(g, agent_id, content, msg_type, metadata, image_url, to_agents) ==
    [id |-> Len(messages) + 1, game_id |-> g, agent_id |-> agent_id,
     type |-> msg_type, content |-> content, image_url |-> image_url,
     to_agents |-> to_agents, metadata |-> json_dumps(metadata),
     created_at |-> datetime_now]

\* A post_message that writes over the newest row instead of inserting.
post_message_overwriting(g, agent_id, content, msg_type, metadata, image_url, to_agents) ==
    IF Len(messages) = 0
    THEN Append(messages, NewMessage(g, agent_id, content, msg_type, metadata, image_url, to_agents))
    ELSE [messages EXCEPT ![Len(messages)] =
              NewMessage(g, agent_id, content, msg_type, metadata, image_url, to_agents)]

post_message(g, agent_id, content, msg_type, metadata, image_url, to_agents) ==
    Append(messages, NewMessage(g, agent_id, content, msg_type, metadata, image_url, to_agents))

\* channel.get_messages
get_messages(g, after, limit) ==
    IF after # NoId
    THEN IF \E i \in 1..Len(messages):
                messages[i].id = after /\ messages[i].game_id = g
         THEN LET row == messages[CHOOSE i \in 1..Len(messages):
                                messages[i].id = after /\ messages[i].game_id = g]
              IN  Limit(OrderByCreatedAt(
                      SelectSeq(GameMsgs(g),
                                LAMBDA m: Earlier(row.created_at, m.created_at))), limit)
         ELSE <<>>
    ELSE Limit(OrderByCreatedAt(GameMsgs(g)), limit)

\* channel.get_message: WHERE m.id = ? AND m.game_id = ?
get_message(g, msg_id) ==
    IF \E i \in 1..Len(messages): messages[i].id = msg_id /\ messages[i].game_id = g
    THEN messages[CHOOSE i \in 1..Len(messages):
                      messages[i].id = msg_id /\ messages[i].game_id = g]
    ELSE NoRow

\* channel.get_latest_message_id: the id of the session's latest message,
\* None when the session has no message.
get_latest_message_id(g) ==
    LET s == OrderByCreatedAt(GameMsgs(g))
    IN  IF Len(s) = 0 THEN NoId ELSE s[Len(s)].id

----------------------------------------------------------------------------
(* moderation.py                                                           *)

\* Request contents the model posts.  "slur" stands for a text matching one
\* of _BLOCKED_PATTERNS; the J_ contents are JSON texts (see json_loads).
BlockedContents == {"slur"}

\* moderation.moderate_content: TRUE when no blocked pattern matches.
moderate_content(content) == content \notin BlockedContents

\* Image URLs the model submits.
ImageUrls == {"http://example.com/map.png", "https://127.0.0.1/map.png",
              "https://10.0.0.5/map.png", "https://example.com/map.png"}

\* image_url.startswith("https://")
startswith_https(image_url) ==
    image_url \in {"https://127.0.0.1/map.png", "https://10.0.0.5/map.png",
                   "https://example.com/map.png"}

\* urlparse(image_url).hostname or ""
hostname(image_url) ==
    CASE image_url = "http://example.com/map.png"  -> "example.com"
      [] image_url = "https://example.com/map.png" -> "example.com"
      [] image_url = "https://127.0.0.1/map.png"   -> "127.0.0.1"
      [] image_url = "https://10.0.0.5/map.png"    -> "10.0.0.5"
      [] OTHER -> ""

\* ipaddress.ip_address(host): is_loopback / is_private / is_link_local /
\* is_reserved of an IP literal; a name raises ValueError ("name").
ip_address(host) ==
    CASE host = "127.0.0.1" -> "loopback"
      [] host = "10.0.0.5"  -> "private"
      [] OTHER -> "name"

\* moderation.moderate_image: TRUE when the URL passes, FALSE when it
\* raises ModerationError.
moderate_image(image_url) ==
    IF ~startswith_https(image_url) THEN FALSE
    ELSE IF hostname(image_url) \in {"localhost", "127.0.0.1", "0.0.0.0", "::1"} THEN FALSE
    ELSE IF ip_address(hostname(image_url)) \in {"loopback", "private"} THEN FALSE
    ELSE TRUE

----------------------------------------------------------------------------
(* routes/messages.py                                                      *)

\* json.loads(content) for the contents of the model: plain texts are not
\* JSON (JSONDecodeError); J_full and J_narr are objects with "narration".
\*   J_full = {"narration": "The lights die.", "respond": ["Rook"],
\*             "whispers": [{"to": ["Rook"], "content": "Something watches you."}]}
\*   J_narr = {"narration": "The lights die."}
\*   J_void = {"narration": "The lights die.",
\*             "whispers": [{"to": [], "content": "Nobody hears this."},
\*                          {"to": ["Rook"], "content": ""},
\*                          {"to": ["Ghost"], "content": "Something watches you."}]}
json_loads(content) ==
    CASE content = "J_full" ->
            [ok |-> TRUE, narration |-> "The lights die.",
             respond |-> <<"Rook">>,
             whispers |-> << [to |-> <<"Rook">>, content |-> "Something watches you."] >>]
      [] content = "J_void" ->
            [ok |-> TRUE, narration |-> "The lights die.",
             respond |-> <<>>,
             whispers |-> << [to |-> <<>>, content |-> "Nobody hears this."],
                             [to |-> <<"Rook">>, content |-> ""],
                             [to |-> <<"Ghost">>, content |-> "Something watches you."] >>]
      [] content = "J_narr" ->
            [ok |-> TRUE, narration |-> "The lights die.",
             respond |-> <<>>, whispers |-> <<>>]
      [] OTHER ->
            [ok |-> FALSE, narration |-> "", respond |-> <<>>, whispers |-> <<>>]

\* _maybe_extract_dm_json.  `metadata = dict(metadata) if metadata else {}`,
\* then `metadata.setdefault("respond", data["respond"])` when the payload's
\* respond list is non-empty (an entry already present is kept, also an
\* empty one), and `metadata or None` is returned.  A `whispers` that is
\* None is modelled as the empty list (the caller tests `if whispers:`).
maybe_extract_dm_json(content, metadata) ==
    LET data == json_loads(content)
        copy == IF truthy(metadata) THEN metadata ELSE Meta({}, <<>>)
        merged == IF data.respond # <<>> /\ "respond" \notin copy.keys
                  THEN Meta(copy.keys \cup {"respond"}, data.respond)
                  ELSE copy
    IN  IF ~data.ok
        THEN [content |-> content, metadata |-> metadata, whispers |-> <<>>]
        ELSE [content |-> data.narration,
              metadata |-> IF truthy(merged) THEN merged ELSE NoMeta,
              whispers |-> data.whispers]

\* A _can_see_whisper without the author clause.
can_see_whisper_recipients_only(msg, agent) ==
    IF msg.to_agents = {} THEN TRUE
    ELSE IF agent = None THEN FALSE
    ELSE agent \in msg.to_agents

\* _can_see_whisper(msg, agent); agent = None for an unauthenticated caller.
can_see_whisper(msg, agent) ==
    IF msg.to_agents = {} THEN TRUE
    ELSE IF agent = None THEN FALSE
    ELSE agent \in msg.to_agents \/ agent = msg.agent_id

\* channel._row_to_msg / post_message: the content_type of a message,
\* computed from its type.
content_type(msg_type) ==
    IF msg_type \in {"system", "roll"} THEN "system" ELSE "user_generated"

\* get_game_messages: the response body (code 404 when the game is unknown).
get_game_messages(g, agent, after, limit, include_whispers) ==
    IF games[g] = NoRow
    THEN [code |-> 404, messages |-> <<>>, latest_message_id |-> NoId]
    ELSE LET msgs == get_messages(g, after, limit)
             visible == IF include_whispers THEN msgs
                        ELSE SelectSeq(msgs, LAMBDA m: can_see_whisper(m, agent))
         IN  [code |-> 200, messages |-> visible,
              latest_message_id |->
                 IF Len(visible) > 0 THEN visible[Len(visible)].id ELSE NoId]

\* get_transcript: one line per message that is not a sheet, each line
\* carrying the message's type, whisper tag, author and content.
get_transcript(g) ==
    IF games[g] = NoRow THEN [code |-> 404, lines |-> <<>>]
    ELSE [code |-> 200,
          lines |-> SelectSeq(get_messages(g, NoId, TranscriptLimit),
                              LAMBDA m: m.type # "sheet")]

\* get_single_message
get_single_message(g, msg_id, agent) ==
    LET msg == get_message(g, msg_id)
    IN  IF msg = NoRow THEN [code |-> 404, message |-> NoRow]
        ELSE IF ~can_see_whisper(msg, agent) THEN [code |-> 404, message |-> NoRow]
        ELSE [code |-> 200, message |-> msg]

----------------------------------------------------------------------------
(* Request slots                                                           *)

DefaultConfig == [max_players |-> 4, allow_mid_session_join |-> TRUE]

Idle ==
    [op |-> "idle", pc |-> "idle", agent |-> None, game |-> "g1", name |-> "",
     target |-> None, typ |-> "", content |-> "", image_url |-> NoImage,
     to_agents |-> {}, metadata |-> NoMeta, after |-> NoId, token |-> NoToken, character |-> None,
     cfg |-> DefaultConfig, status |-> "", role |-> "", whispers |-> <<>>,
     ids |-> {}, code |-> 0, msg_id |-> NoId, issued |-> NoToken,
     limit |-> DefaultLimit, include_whispers |-> FALSE, since |-> NoStamp,
     rows |-> <<>>, count |-> 0, action_type |-> ""]

\* Operations whose handler ends by posting a system message.
Appending == {"create", "join", "leave", "start", "end",
              "kick", "mute", "unmute", "invite"}

\* A request arrives (authenticated as r.agent by get_current_agent) and
\* its handler starts in a free slot.
start(p, r) ==
    /\ req[p].pc = "idle"
    /\ req' = [req EXCEPT ![p] = r]
    /\ UNCHANGED <<games, players, messages, now, tokens, sw, kicked, claimed, polled, schema, resolution>>

\* The handler raises HTTPException(status_code) or returns (200).
Done(r, code) == [r EXCEPT !.pc = "done", !.code = code]

\* The response has been sent; the slot is free again.
respond(p) ==
    /\ req[p].pc = "done"
    /\ req' = [req EXCEPT ![p] = Idle]
    /\ UNCHANGED <<games, players, messages, now, tokens, sw, kicked, claimed, polled, schema, resolution>>

----------------------------------------------------------------------------
(* routes/messages.py: post_game_message                                   *)

PostReq(a, g, typ, content, image_url, to, after, tok) ==
    [Idle EXCEPT !.op = "post", !.pc = "get_game", !.agent = a, !.game = g,
                 !.typ = typ, !.content = content, !.image_url = image_url,
                 !.to_agents = to,
                 !.after = after, !.token = tok]

\* SELECT id, status FROM games
post_get_game(p) ==
    LET r == req[p] IN
    /\ r.op = "post" /\ r.pc = "get_game"
    /\ req' = [req EXCEPT ![p] =
                 IF games[r.game] = NoRow THEN Done(r, 404)
                 ELSE [r EXCEPT !.pc = "get_player", !.status = games[r.game].status]]
    /\ UNCHANGED <<games, players, messages, now, tokens, sw, kicked, claimed, polled, schema, resolution>>

\* A membership check that lets muted players through.
post_get_player_ignoring_mute(p) ==
    LET r == req[p]
        player == players[r.game][r.agent] IN
    /\ r.op = "post" /\ r.pc = "get_player"
    /\ req' = [req EXCEPT ![p] =
                 IF player = NoRow THEN Done(r, 403)
                 ELSE IF player.status = "kicked" THEN Done(r, 403)
                 ELSE IF r.token = NoToken THEN Done(r, 403)
                 ELSE [r EXCEPT !.pc = "validate_token", !.role = player.role]]
    /\ UNCHANGED <<games, players, messages, now, tokens, sw, kicked, claimed, polled, schema, resolution>>

\* SELECT role, status FROM players; then the X-Session-Token header test
post_get_player(p) ==
    LET r == req[p]
        player == players[r.game][r.agent] IN
    /\ r.op = "post" /\ r.pc = "get_player"
    /\ req' = [req EXCEPT ![p] =
                 IF player = NoRow THEN Done(r, 403)
                 ELSE IF player.status = "muted" THEN Done(r, 403)
                 ELSE IF player.status = "kicked" THEN Done(r, 403)
                 ELSE IF r.token = NoToken THEN Done(r, 403)
                 ELSE [r EXCEPT !.pc = "validate_token", !.role = player.role]]
    /\ UNCHANGED <<games, players, messages, now, tokens, sw, kicked, claimed, polled, schema, resolution>>

\* A staleness check that runs whether or not after was supplied.
after_supplied_always(after) == TRUE

\* if req.after is not None:
after_supplied(after) == after # NoId

\* A staleness check that never rejects.
stale_never(after, latest_id) == FALSE

\*     latest_id = await get_latest_message_id(game_id)
\*     if latest_id is not None and latest_id != req.after: 409
stale(after, latest_id) == latest_id # NoId /\ latest_id # after

\* The checks with the moderation moved before the type checks.
post_checks_moderation_first(r) ==
    IF ~moderate_content(r.content) THEN 422
    ELSE IF r.image_url # NoImage /\ ~moderate_image(r.image_url) THEN 422
    ELSE IF r.typ \notin VALID_MSG_TYPES THEN 400
    ELSE IF r.typ \in {"narrative", "system"} /\ r.role # "dm" THEN 403
    ELSE IF r.status = "open" /\ r.typ \notin {"ooc", "sheet"} THEN 400
    ELSE 0

\* The checks without the restriction on games not yet started.
post_checks_any_time(r) ==
    IF r.typ \notin VALID_MSG_TYPES THEN 400
    ELSE IF r.typ \in {"narrative", "system"} /\ r.role # "dm" THEN 403
    ELSE IF ~moderate_content(r.content) THEN 422
    ELSE IF r.image_url # NoImage /\ ~moderate_image(r.image_url) THEN 422
    ELSE 0

\* The checks with a closed channel: no post once the game is completed.
post_checks_closed(r) ==
    IF r.typ \notin VALID_MSG_TYPES THEN 400
    ELSE IF r.typ \in {"narrative", "system"} /\ r.role # "dm" THEN 403
    ELSE IF r.status = "open" /\ r.typ \notin {"ooc", "sheet"} THEN 400
    ELSE IF r.status = "completed" THEN 400
    ELSE IF ~moderate_content(r.content) THEN 422
    ELSE IF r.image_url # NoImage /\ ~moderate_image(r.image_url) THEN 422
    ELSE 0

\* The checks of post_game_message between the token lookup and the
\* staleness check, on the values read so far: 0 when all pass.
post_checks(r) ==
    IF r.typ \notin VALID_MSG_TYPES THEN 400
    ELSE IF r.typ \in {"narrative", "system"} /\ r.role # "dm" THEN 403
    ELSE IF r.status = "open" /\ r.typ \notin {"ooc", "sheet"} THEN 400
    ELSE IF ~moderate_content(r.content) THEN 422
    ELSE IF r.image_url # NoImage /\ ~moderate_image(r.image_url) THEN 422
    ELSE 0

\* A validation that asks for a token and does not compare it.
post_validate_token_any(p) ==
    LET r == req[p]
        row == players[r.game][r.agent] IN
    /\ r.op = "post" /\ r.pc = "validate_token"
    /\ req' = [req EXCEPT ![p] =
                 IF row = NoRow THEN Done(r, 403)
                 ELSE IF r.token = NoToken THEN Done(r, 403)
                 ELSE IF post_checks(r) # 0 THEN Done(r, post_checks(r))
                 ELSE IF after_supplied(r.after) THEN [r EXCEPT !.pc = "staleness"]
                 ELSE [r EXCEPT !.pc = "post_message"]]
    /\ UNCHANGED <<games, players, messages, now, tokens, sw, kicked, claimed, polled, schema, resolution>>

\* SELECT session_token FROM players; hmac.compare_digest; then the checks
post_validate_token(p) ==
    LET r == req[p]
        row == players[r.game][r.agent] IN
    /\ r.op = "post" /\ r.pc = "validate_token"
    /\ req' = [req EXCEPT ![p] =
                 IF row = NoRow THEN Done(r, 403)
                 ELSE IF row.session_token # r.token THEN Done(r, 403)
                 ELSE IF post_checks(r) # 0 THEN Done(r, post_checks(r))
                 ELSE IF after_supplied(r.after) THEN [r EXCEPT !.pc = "staleness"]
                 ELSE [r EXCEPT !.pc = "post_message"]]
    /\ UNCHANGED <<games, players, messages, now, tokens, sw, kicked, claimed, polled, schema, resolution>>

post_staleness(p) ==
    LET r == req[p] IN
    /\ r.op = "post" /\ r.pc = "staleness"
    /\ req' = [req EXCEPT ![p] =
                 IF stale(r.after, get_latest_message_id(r.game)) THEN Done(r, 409)
                 ELSE [r EXCEPT !.pc = "post_message"]]
    /\ UNCHANGED <<games, players, messages, now, tokens, sw, kicked, claimed, polled, schema, resolution>>

\* A safety net applied to every caller and type.
post_extract_everyone(r) == maybe_extract_dm_json(r.content, r.metadata)

\* The safety net, then post_message(game_id, agent["id"], content, ...)
post_extract(r) ==
    IF r.role = "dm" /\ r.typ \in {"narrative", "system"}
    THEN maybe_extract_dm_json(r.content, r.metadata)
    ELSE [content |-> r.content, metadata |-> r.metadata, whispers |-> <<>>]

post_insert(p) ==
    LET r == req[p]
        x == post_extract(r) IN
    /\ r.op = "post" /\ r.pc = "post_message"
    /\ messages' = post_message(r.game, r.agent, x.content, r.typ, x.metadata, r.image_url, r.to_agents)
    /\ claimed' = IF r.after # NoId
                  THEN claimed \cup {<<Len(messages) + 1, r.after>>} ELSE claimed
    /\ req' = [req EXCEPT ![p] =
                 IF x.whispers # <<>>
                 THEN [r EXCEPT !.pc = "whisper", !.whispers = x.whispers,
                                !.msg_id = Len(messages) + 1]
                 ELSE [Done(r, 200) EXCEPT !.msg_id = Len(messages) + 1]]
    /\ UNCHANGED <<games, players, now, tokens, sw, kicked, polled, schema, resolution>>

\* _resolve_character_names: for each name one SELECT agent_id FROM players
\* WHERE game_id = ? AND character_name = ? and fetchone(): one row per name
\* that some row carries, whichever row the query returns first when several
\* players of the game carry the name.  The operator gives the possible
\* results, each the set of the agent ids collected.
resolve_character_names(g, names) ==
    LET playing(n) == {a \in Agents: /\ players[g][a] # NoRow
                                     /\ players[g][a].character_name = n}
        named == {n \in {names[i]: i \in 1..Len(names)}: playing(n) # {}}
    IN  {{f[n]: n \in named}: f \in {h \in [named -> Agents]: \A n \in named: h[n] \in playing(n)}}

\* A loop that posts a whisper whether or not a name was resolved.
post_whisper_unresolved(p) ==
    LET r == req[p]
        w == Head(r.whispers) IN
    /\ r.op = "post" /\ r.pc = "whisper"
    /\ \E ids \in resolve_character_names(r.game, w.to):
          req' = [req EXCEPT ![p] =
                    IF w.content = "" \/ w.to = <<>>
                    THEN IF Len(r.whispers) = 1 THEN Done(r, 200)
                         ELSE [r EXCEPT !.whispers = Tail(r.whispers)]
                    ELSE [r EXCEPT !.pc = "whisper_post", !.ids = ids]]
    /\ UNCHANGED <<games, players, messages, now, tokens, sw, kicked, claimed, polled, schema, resolution>>

\* for w in whispers: skip an empty whisper, else resolve its names
post_whisper(p) ==
    LET r == req[p]
        w == Head(r.whispers) IN
    /\ r.op = "post" /\ r.pc = "whisper"
    /\ \E ids \in resolve_character_names(r.game, w.to):
          req' = [req EXCEPT ![p] =
                    IF w.content = "" \/ w.to = <<>> \/ ids = {}
                    THEN IF Len(r.whispers) = 1 THEN Done(r, 200)
                         ELSE [r EXCEPT !.whispers = Tail(r.whispers)]
                    ELSE [r EXCEPT !.pc = "whisper_post", !.ids = ids]]
    /\ UNCHANGED <<games, players, messages, now, tokens, sw, kicked, claimed, polled, schema, resolution>>

\* post_message(game_id, agent["id"], w_content, "narrative", to_agents=to_agent_ids)
post_whisper_insert(p) ==
    LET r == req[p]
        w == Head(r.whispers) IN
    /\ r.op = "post" /\ r.pc = "whisper_post"
    /\ messages' = post_message(r.game, r.agent, w.content, "narrative", NoMeta, NoImage, r.ids)
    /\ req' = [req EXCEPT ![p] =
                 IF Len(r.whispers) = 1 THEN Done(r, 200)
                 ELSE [r EXCEPT !.pc = "whisper", !.whispers = Tail(r.whispers)]]
    /\ UNCHANGED <<games, players, now, tokens, sw, kicked, claimed, polled, schema, resolution>>

post_step(p) ==
    \/ post_get_game(p)
    \/ post_get_player(p)
    \/ post_validate_token(p)
    \/ post_staleness(p)
    \/ post_insert(p)
    \/ post_whisper(p)
    \/ post_whisper_insert(p)

\* ---------------------------------------------------------------------
\* routes/engine.py: POST /games/{game_id}/engine/action.  The route
\* function submits an action to the game's rules plugin and posts the
\* plugin's summary as a message of type "roll" written by the caller.
\* app.py 175-183 includes the admin, games, lobby and messages routers
\* only, and the module imports two request classes that models.py does
\* not define; the steps below are those of the function as written.
\* ---------------------------------------------------------------------

\* EngineActionRequest: action_type and character (params are passed
\* through to the result's details and are not tracked).
EngineReq(a, g, action_type, character, tok) ==
    [Idle EXCEPT !.op = "engine", !.pc = "get_player", !.agent = a, !.game = g,
                 !.action_type = action_type, !.character = character,
                 !.token = tok]

\* dm_only_actions = {"damage", "start_combat", "end_combat"}
dm_only_actions == {"damage", "start_combat", "end_combat"}

\* FreestylePlugin.process_action: the summary of the result.  Its
\* state_changed is False, so engine_action does not await _save_engine.
\* games.engine_type is never written and defaults to 'freestyle', so
\* _create_plugin returns this plugin for every game.
\* The dash of the summary is U+2014, written here as its JSON escape.
process_action(action_type, character) ==
    character \o ": " \o action_type \o " \\u2014 DM resolves."

\* SELECT role, status FROM players: 403 without a row or with a status
\* other than active; then the X-Session-Token header test of
\* _validate_session_token, which runs before its first await.
engine_get_player(p) ==
    LET r == req[p]
        player == players[r.game][r.agent] IN
    /\ r.op = "engine" /\ r.pc = "get_player"
    /\ req' = [req EXCEPT ![p] =
                 IF player = NoRow THEN Done(r, 403)
                 ELSE IF player.status # "active" THEN Done(r, 403)
                 ELSE IF r.token = NoToken THEN Done(r, 403)
                 ELSE [r EXCEPT !.pc = "validate_token", !.role = player.role]]
    /\ UNCHANGED <<games, players, messages, now, tokens, sw, kicked, claimed, polled, schema, resolution>>

\* SELECT session_token FROM players; hmac.compare_digest; then the test
\* of the actions reserved to the DM.
engine_validate_token(p) ==
    LET r == req[p]
        row == players[r.game][r.agent] IN
    /\ r.op = "engine" /\ r.pc = "validate_token"
    /\ req' = [req EXCEPT ![p] =
                 IF row = NoRow THEN Done(r, 403)
                 ELSE IF row.session_token # r.token THEN Done(r, 403)
                 ELSE IF r.action_type \in dm_only_actions /\ r.role # "dm"
                      THEN Done(r, 403)
                 ELSE [r EXCEPT !.pc = "load_engine"]]
    /\ UNCHANGED <<games, players, messages, now, tokens, sw, kicked, claimed, polled, schema, resolution>>

\* _load_engine: SELECT * FROM games (404 without a row); then
\* plugin.process_action, whose summary becomes the message content.
engine_load(p) ==
    LET r == req[p] IN
    /\ r.op = "engine" /\ r.pc = "load_engine"
    /\ req' = [req EXCEPT ![p] =
                 IF games[r.game] = NoRow THEN Done(r, 404)
                 ELSE [r EXCEPT !.pc = "post_message",
                                !.content = process_action(r.action_type, r.character)]]
    /\ UNCHANGED <<games, players, messages, now, tokens, sw, kicked, claimed, polled, schema, resolution>>

\* post_message(game_id, agent["id"], result.summary, "roll",
\*              metadata={"engine_result": ..., "action": ...})
engine_post(p) ==
    LET r == req[p] IN
    /\ r.op = "engine" /\ r.pc = "post_message"
    /\ messages' = post_message(r.game, r.agent, r.content, "roll",
                                Meta({"engine_result", "action"}, <<>>), NoImage, {})
    /\ req' = [req EXCEPT ![p] = [Done(r, 200) EXCEPT !.msg_id = Len(messages) + 1]]
    /\ UNCHANGED <<games, players, now, tokens, sw, kicked, claimed, polled, schema, resolution>>

engine_action(p) ==
    \/ engine_get_player(p)
    \/ engine_validate_token(p)
    \/ engine_load(p)
    \/ engine_post(p)

\* A client polls GET /games/{id}/messages and keeps the response.
\* GET /games/{game_id}/messages
PollReq(a, g, after, limit, include_whispers) ==
    [Idle EXCEPT !.op = "poll", !.pc = "get_game", !.agent = a, !.game = g,
                 !.after = after, !.limit = limit,
                 !.include_whispers = include_whispers]

\* The GameMessagesResponse built from the rows get_messages returned; count
\* is the length the session's log had when the rows were read.
poll_response(r, rows, count) ==
    LET visible == IF r.include_whispers THEN rows
                   ELSE SelectSeq(rows, LAMBDA m: can_see_whisper(m, r.agent)) IN
    [agent |-> r.agent, game |-> r.game, after |-> r.after, limit |-> r.limit,
     messages |-> visible,
     latest |-> IF Len(visible) > 0 THEN visible[Len(visible)].id ELSE NoId,
     count |-> count]

\* get_messages has returned rows: an authenticated caller's role is
\* selected next, the response to any other caller is returned at once.
poll_got(p, rows) ==
    LET r == req[p]
        count == Len(GameMsgs(r.game)) IN
    /\ req' = [req EXCEPT ![p] =
                 IF r.agent # None
                 THEN [r EXCEPT !.pc = "role", !.rows = rows, !.count = count]
                 ELSE Done([r EXCEPT !.rows = rows, !.count = count], 200)]
    /\ polled' = IF r.agent # None THEN polled ELSE poll_response(r, rows, count)

\* SELECT id, config FROM games WHERE id = ?
poll_get_game(p) ==
    LET r == req[p] IN
    /\ r.op = "poll" /\ r.pc = "get_game"
    /\ req' = [req EXCEPT ![p] =
                 IF games[r.game] = NoRow THEN Done(r, 404)
                 ELSE IF r.after # NoId THEN [r EXCEPT !.pc = "after"]
                 ELSE [r EXCEPT !.pc = "select"]]
    /\ UNCHANGED <<games, players, messages, now, tokens, sw, kicked, claimed, polled, schema, resolution>>

\* get_messages, `if after:`
\* SELECT created_at FROM messages WHERE id = ? AND game_id = ?; no row:
\* `return []`.
poll_after(p) ==
    LET r == req[p]
        row == get_message(r.game, r.after) IN
    /\ r.op = "poll" /\ r.pc = "after"
    /\ IF row = NoRow
       THEN poll_got(p, <<>>)
       ELSE /\ req' = [req EXCEPT ![p] = [r EXCEPT !.pc = "select", !.since = row.created_at]]
            /\ polled' = polled
    /\ UNCHANGED <<games, players, messages, now, tokens, sw, kicked, claimed, schema, resolution>>

\* The rows of WHERE m.game_id = ? [AND m.created_at > ?] ORDER BY
\* m.created_at ASC, read from idx_messages_game_created.
poll_rows(g, since) ==
    OrderByCreatedAt(
        IF since = NoStamp THEN GameMsgs(g)
        ELSE SelectSeq(GameMsgs(g), LAMBDA m: Earlier(since, m.created_at)))

\* cursor = await db.execute(SELECT m.*, ... LIMIT ?): the statement is
\* stepped to its first row; with no row it is finished.
poll_select(p) ==
    LET r == req[p]
        q == poll_rows(r.game, r.since) IN
    /\ r.op = "poll" /\ r.pc = "select"
    /\ IF q = <<>>
       THEN /\ req' = [req EXCEPT ![p] = [r EXCEPT !.pc = "fetchall", !.msg_id = NoId,
                                                   !.count = Len(GameMsgs(r.game))]]
       ELSE /\ req' = [req EXCEPT ![p] = [r EXCEPT !.pc = "fetchall", !.msg_id = q[1].id]]
    /\ UNCHANGED <<games, players, messages, now, tokens, sw, kicked, claimed, polled, schema, resolution>>

\* rows = await cursor.fetchall(): the first row, then the rows that follow
\* it in the index when the fetch runs, LIMIT rows in all; none when the
\* execute found none.
poll_fetchall(p) ==
    LET r == req[p]
        first == get_message(r.game, r.msg_id)
        rest == SelectSeq(OrderByCreatedAt(GameMsgs(r.game)),
                          LAMBDA m: \/ Earlier(first.created_at, m.created_at)
                                    \/ (m.created_at = first.created_at /\ m.id > first.id))
    IN
    /\ r.op = "poll" /\ r.pc = "fetchall"
    /\ IF r.msg_id = NoId
       THEN /\ req' = [req EXCEPT ![p] =
                        IF r.agent # None THEN [r EXCEPT !.pc = "role", !.rows = <<>>]
                        ELSE Done([r EXCEPT !.rows = <<>>], 200)]
            /\ polled' = IF r.agent # None THEN polled
                         ELSE poll_response(r, <<>>, r.count)
       ELSE poll_got(p, Limit(<<first>> \o rest, r.limit))
    /\ UNCHANGED <<games, players, messages, now, tokens, sw, kicked, claimed, schema, resolution>>

\* `if agent:` SELECT role FROM players WHERE game_id = ? AND agent_id = ?;
\* the response is returned.
poll_role(p) ==
    LET r == req[p]
        player == players[r.game][r.agent] IN
    /\ r.op = "poll" /\ r.pc = "role"
    /\ req' = [req EXCEPT ![p] =
                 Done([r EXCEPT !.role = IF player # NoRow THEN player.role ELSE ""], 200)]
    /\ polled' = poll_response(r, r.rows, r.count)
    /\ UNCHANGED <<games, players, messages, now, tokens, sw, kicked, claimed, schema, resolution>>

poll_step(p) ==
    \/ poll_get_game(p)
    \/ poll_after(p)
    \/ poll_select(p)
    \/ poll_fetchall(p)
    \/ poll_role(p)

----------------------------------------------------------------------------
(* routes/games.py and admin.py                                            *)

UReq == <<games, players, messages, now, tokens, sw, kicked, claimed, polled, schema, resolution>>

\* The system message a handler posts once its change is made:
\* post_message(game_id, None, text, "system").
announcement(r) ==
    CASE r.op = "join" ->
            IF r.character # None THEN r.agent \o " joined as " \o r.character \o "."
            ELSE r.agent \o " joined."
      [] r.op = "leave"  -> r.agent \o " left the game."
      [] r.op = "start"  -> "Game started!"
      [] r.op = "end"    -> "Game ended."
      [] r.op = "kick"   ->
            IF r.content = "" THEN r.target \o " was kicked from the game."
            ELSE r.target \o " was kicked from the game. Reason: " \o
                 (IF moderate_content(r.content) THEN r.content ELSE "[moderated]")
      [] r.op = "mute"   -> r.target \o " was muted."
      [] r.op = "unmute" -> r.target \o " was unmuted."
      [] r.op = "invite" -> r.target \o " was invited to the game."
      [] r.op = "create" -> "Game \"" \o r.name \o "\" created by " \o r.agent \o " (DM)."

\* await post_message(game_id, None, ..., "system"), the last statement of
\* create, join, leave, start, end, kick, mute, unmute and invite.
announce(p) ==
    LET r == req[p] IN
    /\ r.op \in Appending /\ r.pc = "post_message"
    /\ messages' = post_message(r.game, None, announcement(r), "system", NoMeta, NoImage, {})
    /\ req' = [req EXCEPT ![p] = Done(r, 200)]
    /\ UNCHANGED <<games, players, now, tokens, sw, kicked, claimed, polled, schema, resolution>>

\* A verification that only asks for the game to exist.
verify_dm_anyone(p) ==
    LET r == req[p] IN
    /\ r.pc = "verify_dm"
    /\ req' = [req EXCEPT ![p] =
                 IF games[r.game] = NoRow THEN Done(r, 404)
                 ELSE [r EXCEPT !.pc = "verified"]]
    /\ UNCHANGED UReq

\* games._verify_dm / admin._verify_dm: SELECT the game, compare dm_id.
verify_dm(p) ==
    LET r == req[p]
        game == games[r.game] IN
    /\ r.pc = "verify_dm"
    /\ req' = [req EXCEPT ![p] =
                 IF game = NoRow THEN Done(r, 404)
                 ELSE IF game.dm_id # r.agent THEN Done(r, 403)
                 ELSE [r EXCEPT !.pc = "verified"]]
    /\ UNCHANGED UReq

(* join_game *)

JoinReq(a, g, character) ==
    [Idle EXCEPT !.op = "join", !.pc = "get_game", !.agent = a, !.game = g,
                 !.character = character]

\* A join that reads the game and does not look at its status.
join_get_game_any_status(p) ==
    LET r == req[p]
        game == games[r.game] IN
    /\ r.op = "join" /\ r.pc = "get_game"
    /\ req' = [req EXCEPT ![p] =
                 IF game = NoRow THEN Done(r, 404)
                 ELSE [r EXCEPT !.pc = "existing", !.cfg = game.config]]
    /\ UNCHANGED UReq

join_get_game(p) ==
    LET r == req[p]
        game == games[r.game] IN
    /\ r.op = "join" /\ r.pc = "get_game"
    /\ req' = [req EXCEPT ![p] =
                 IF game = NoRow THEN Done(r, 404)
                 ELSE IF game.status = "completed" \/ game.status = "cancelled"
                      THEN Done(r, 400)
                 ELSE IF game.status = "in_progress" /\ ~game.config.allow_mid_session_join
                      THEN Done(r, 400)
                 ELSE [r EXCEPT !.pc = "existing", !.cfg = game.config]]
    /\ UNCHANGED UReq

join_existing(p) ==
    LET r == req[p]
        existing == players[r.game][r.agent] IN
    /\ r.op = "join" /\ r.pc = "existing"
    /\ req' = [req EXCEPT ![p] =
                 IF existing # NoRow
                 THEN IF existing.status = "kicked" THEN Done(r, 403) ELSE Done(r, 409)
                 ELSE [r EXCEPT !.pc = "count"]]
    /\ UNCHANGED UReq

\* SELECT COUNT(*) FROM players WHERE role = 'player' AND status = 'active'
active_players(g) ==
    Cardinality({a \in Agents: /\ players[g][a] # NoRow
                               /\ players[g][a].role = "player"
                               /\ players[g][a].status = "active"})

join_count(p) ==
    LET r == req[p] IN
    /\ r.op = "join" /\ r.pc = "count"
    /\ req' = [req EXCEPT ![p] =
                 IF active_players(r.game) >= r.cfg.max_players THEN Done(r, 400)
                 ELSE [r EXCEPT !.pc = "insert"]]
    /\ UNCHANGED UReq

\* INSERT INTO players; PRIMARY KEY (game_id, agent_id): a second row for
\* the same key raises IntegrityError (500).
insert_player(p) ==
    LET r == req[p]
        who == IF r.op = "join" THEN r.agent ELSE r.target IN
    /\ r.op \in {"join", "invite"} /\ r.pc = "insert"
    /\ IF players[r.game][who] # NoRow
       THEN /\ req' = [req EXCEPT ![p] = Done(r, 500)]
            /\ UNCHANGED <<players, tokens>>
       ELSE /\ players' = [players EXCEPT ![r.game][who] =
                             [role |-> "player", status |-> "active",
                              session_token |-> tokens + 1,
                              character_name |-> r.character]]
            /\ tokens' = tokens + 1
            /\ req' = [req EXCEPT ![p] =
                         [r EXCEPT !.pc = "post_message", !.issued = tokens + 1]]
    /\ UNCHANGED <<games, messages, now, sw, kicked, claimed, polled, schema, resolution>>

\* The session_token field of the body returned for request r:
\* GameSummaryWithToken(..., session_token=session_token) for create,
\* JoinGameResponse(..., session_token=session_token) for join; the body of
\* invite is {"status": "invited", "agent_id": ...} and no other body has
\* the field.
session_token_in_response(r) ==
    IF r.code = 200 /\ r.op \in {"create", "join"} THEN r.issued ELSE NoToken

(* leave_game *)

LeaveReq(a, g) ==
    [Idle EXCEPT !.op = "leave", !.pc = "get_game", !.agent = a, !.game = g]

leave_get_game(p) ==
    LET r == req[p] IN
    /\ r.op = "leave" /\ r.pc = "get_game"
    /\ req' = [req EXCEPT ![p] =
                 IF games[r.game] = NoRow THEN Done(r, 404)
                 ELSE [r EXCEPT !.pc = "get_player"]]
    /\ UNCHANGED UReq

\* A leave that lets every member go, the narrator included.
leave_get_player_anyone(p) ==
    LET r == req[p]
        player == players[r.game][r.agent] IN
    /\ r.op = "leave" /\ r.pc = "get_player"
    /\ req' = [req EXCEPT ![p] =
                 IF player = NoRow THEN Done(r, 404)
                 ELSE [r EXCEPT !.pc = "delete"]]
    /\ UNCHANGED UReq

leave_get_player(p) ==
    LET r == req[p]
        player == players[r.game][r.agent] IN
    /\ r.op = "leave" /\ r.pc = "get_player"
    /\ req' = [req EXCEPT ![p] =
                 IF player = NoRow THEN Done(r, 404)
                 ELSE IF player.role = "dm" THEN Done(r, 400)
                 ELSE [r EXCEPT !.pc = "delete"]]
    /\ UNCHANGED UReq

\* DELETE FROM players WHERE game_id = ? AND agent_id = ?
leave_delete(p) ==
    LET r == req[p] IN
    /\ r.op = "leave" /\ r.pc = "delete"
    /\ players' = [players EXCEPT ![r.game][r.agent] = NoRow]
    /\ req' = [req EXCEPT ![p] = [r EXCEPT !.pc = "post_message"]]
    /\ UNCHANGED <<games, messages, now, tokens, sw, kicked, claimed, polled, schema, resolution>>

(* start_game, end_game, update_config *)

StartReq(a, g) ==
    [Idle EXCEPT !.op = "start", !.pc = "verify_dm", !.agent = a, !.game = g]

EndReq(a, g) ==
    [Idle EXCEPT !.op = "end", !.pc = "verify_dm", !.agent = a, !.game = g]

ConfigReq(a, g, cfg) ==
    [Idle EXCEPT !.op = "config", !.pc = "verify_dm", !.agent = a, !.game = g,
                 !.cfg = cfg]

\* A start that does not look at the status.
start_get_game_any_status(p) ==
    LET r == req[p]
        game == games[r.game] IN
    /\ r.op = "start" /\ r.pc = "verified"
    /\ req' = [req EXCEPT ![p] =
                 IF game = NoRow THEN Done(r, 404)
                 ELSE [r EXCEPT !.pc = "update"]]
    /\ UNCHANGED UReq

\* game = await _get_game(game_id); if game["status"] != "open": 400
start_get_game(p) ==
    LET r == req[p]
        game == games[r.game] IN
    /\ r.op = "start" /\ r.pc = "verified"
    /\ req' = [req EXCEPT ![p] =
                 IF game = NoRow THEN Done(r, 404)
                 ELSE IF game.status # "open" THEN Done(r, 400)
                 ELSE [r EXCEPT !.pc = "update"]]
    /\ UNCHANGED UReq

\* UPDATE games SET status = 'in_progress', started_at = ? WHERE id = ?
start_update(p) ==
    LET r == req[p] IN
    /\ r.op = "start" /\ r.pc = "update"
    /\ games' = [games EXCEPT ![r.game] =
                   [@ EXCEPT !.status = "in_progress", !.started_at = now]]
    /\ req' = [req EXCEPT ![p] = [r EXCEPT !.pc = "post_message"]]
    /\ UNCHANGED <<players, messages, now, tokens, sw, kicked, claimed, polled, schema, resolution>>

\* if game["status"] not in ("open", "in_progress"): 400
end_get_game(p) ==
    LET r == req[p]
        game == games[r.game] IN
    /\ r.op = "end" /\ r.pc = "verified"
    /\ req' = [req EXCEPT ![p] =
                 IF game = NoRow THEN Done(r, 404)
                 ELSE IF game.status \notin {"open", "in_progress"} THEN Done(r, 400)
                 ELSE [r EXCEPT !.pc = "update"]]
    /\ UNCHANGED UReq

\* UPDATE games SET status = 'completed', completed_at = ? WHERE id = ?
end_update(p) ==
    LET r == req[p] IN
    /\ r.op = "end" /\ r.pc = "update"
    /\ games' = [games EXCEPT ![r.game] =
                   [@ EXCEPT !.status = "completed", !.completed_at = now]]
    /\ req' = [req EXCEPT ![p] = [r EXCEPT !.pc = "post_message"]]
    /\ UNCHANGED <<players, messages, now, tokens, sw, kicked, claimed, polled, schema, resolution>>

\* UPDATE games SET config = ? WHERE id = ?
update_config(p) ==
    LET r == req[p] IN
    /\ r.op = "config" /\ r.pc = "verified"
    /\ games' = [games EXCEPT ![r.game] = [@ EXCEPT !.config = r.cfg]]
    /\ req' = [req EXCEPT ![p] = Done(r, 200)]
    /\ UNCHANGED <<players, messages, now, tokens, sw, kicked, claimed, polled, schema, resolution>>

(* admin.py: kick_player, mute_player, unmute_player, invite_player *)

KickReq(a, g, target, reason) ==
    [Idle EXCEPT !.op = "kick", !.pc = "verify_dm", !.agent = a, !.game = g,
                 !.target = target, !.content = reason]

MuteReq(a, g, target) ==
    [Idle EXCEPT !.op = "mute", !.pc = "verify_dm", !.agent = a, !.game = g,
                 !.target = target]

UnmuteReq(a, g, target) ==
    [Idle EXCEPT !.op = "unmute", !.pc = "verify_dm", !.agent = a, !.game = g,
                 !.target = target]

InviteReq(a, g, target) ==
    [Idle EXCEPT !.op = "invite", !.pc = "verify_dm", !.agent = a, !.game = g,
                 !.target = target]

\* A row of table players for an agent id that may not be registered.
player_row(g, a) == IF a \in Agents THEN players[g][a] ELSE NoRow

\* SELECT agent_id FROM players WHERE ... AND role = 'player'
kick_find(p) ==
    LET r == req[p]
        row == player_row(r.game, r.target) IN
    /\ r.op = "kick" /\ r.pc = "verified"
    /\ req' = [req EXCEPT ![p] =
                 IF row = NoRow THEN Done(r, 404)
                 ELSE IF row.role # "player" THEN Done(r, 404)
                 ELSE [r EXCEPT !.pc = "update"]]
    /\ UNCHANGED UReq

\* UPDATE players SET status = 'kicked' WHERE game_id = ? AND agent_id = ?
kick_update(p) ==
    LET r == req[p] IN
    /\ r.op = "kick" /\ r.pc = "update"
    /\ IF player_row(r.game, r.target) # NoRow
       THEN /\ players' = [players EXCEPT ![r.game][r.target].status = "kicked"]
            /\ kicked' = kicked \cup {<<r.game, r.target>>}
       ELSE UNCHANGED <<players, kicked>>
    /\ req' = [req EXCEPT ![p] = [r EXCEPT !.pc = "post_message"]]
    /\ UNCHANGED <<games, messages, now, tokens, sw, claimed, polled, schema, resolution>>

\* A mute that silences every active member, the narrator included.
mute_update_any_role(p) ==
    LET r == req[p]
        row == player_row(r.game, r.target) IN
    /\ r.op = "mute" /\ r.pc = "verified"
    /\ IF row # NoRow /\ row.status = "active"
       THEN players' = [players EXCEPT ![r.game][r.target].status = "muted"]
       ELSE UNCHANGED players
    /\ req' = [req EXCEPT ![p] = [r EXCEPT !.pc = "post_message"]]
    /\ UNCHANGED <<games, messages, now, tokens, sw, kicked, claimed, polled, schema, resolution>>

\* UPDATE players SET status = 'muted' WHERE ... AND role = 'player' AND status = 'active'
mute_update(p) ==
    LET r == req[p]
        row == player_row(r.game, r.target) IN
    /\ r.op = "mute" /\ r.pc = "verified"
    /\ IF row # NoRow /\ row.role = "player" /\ row.status = "active"
       THEN players' = [players EXCEPT ![r.game][r.target].status = "muted"]
       ELSE UNCHANGED players
    /\ req' = [req EXCEPT ![p] = [r EXCEPT !.pc = "post_message"]]
    /\ UNCHANGED <<games, messages, now, tokens, sw, kicked, claimed, polled, schema, resolution>>

\* An unmute that restores every player that is not active, kicked or muted.
unmute_update_any(p) ==
    LET r == req[p]
        row == player_row(r.game, r.target) IN
    /\ r.op = "unmute" /\ r.pc = "verified"
    /\ IF row # NoRow /\ row.role = "player" /\ row.status # "active"
       THEN players' = [players EXCEPT ![r.game][r.target].status = "active"]
       ELSE UNCHANGED players
    /\ req' = [req EXCEPT ![p] = [r EXCEPT !.pc = "post_message"]]
    /\ UNCHANGED <<games, messages, now, tokens, sw, kicked, claimed, polled, schema, resolution>>

\* UPDATE players SET status = 'active' WHERE ... AND role = 'player' AND status = 'muted'
unmute_update(p) ==
    LET r == req[p]
        row == player_row(r.game, r.target) IN
    /\ r.op = "unmute" /\ r.pc = "verified"
    /\ IF row # NoRow /\ row.role = "player" /\ row.status = "muted"
       THEN players' = [players EXCEPT ![r.game][r.target].status = "active"]
       ELSE UNCHANGED players
    /\ req' = [req EXCEPT ![p] = [r EXCEPT !.pc = "post_message"]]
    /\ UNCHANGED <<games, messages, now, tokens, sw, kicked, claimed, polled, schema, resolution>>

\* SELECT name FROM agents WHERE id = ?: 404 for an unregistered target
invite_agent(p) ==
    LET r == req[p] IN
    /\ r.op = "invite" /\ r.pc = "verified"
    /\ req' = [req EXCEPT ![p] =
                 IF r.target \notin Agents THEN Done(r, 404)
                 ELSE [r EXCEPT !.pc = "existing"]]
    /\ UNCHANGED UReq

\* An invitation held to the capacity of the game, as a join is.
invite_existing_capacity(p) ==
    LET r == req[p] IN
    /\ r.op = "invite" /\ r.pc = "existing"
    /\ req' = [req EXCEPT ![p] =
                 IF players[r.game][r.target] # NoRow THEN Done(r, 409)
                 ELSE IF active_players(r.game) >= games[r.game].config.max_players
                      THEN Done(r, 400)
                 ELSE [r EXCEPT !.pc = "insert"]]
    /\ UNCHANGED UReq

\* SELECT agent_id FROM players WHERE game_id = ? AND agent_id = ?
invite_existing(p) ==
    LET r == req[p] IN
    /\ r.op = "invite" /\ r.pc = "existing"
    /\ req' = [req EXCEPT ![p] =
                 IF players[r.game][r.target] # NoRow THEN Done(r, 409)
                 ELSE [r EXCEPT !.pc = "insert"]]
    /\ UNCHANGED UReq

----------------------------------------------------------------------------
(* routes/lobby.py: create_game                                            *)

CreateReq(a, g, name, cfg) ==
    [Idle EXCEPT !.op = "create", !.pc = "insert_game", !.agent = a, !.game = g,
                 !.name = name, !.cfg = cfg]

\* game_id = str(uuid.uuid4()): an id no game has and no other create holds.
fresh_game(g) ==
    /\ games[g] = NoRow
    /\ \A q \in Slots: ~(req[q].op = "create" /\ req[q].game = g)

\* The columns the INSERT of create_game names.
InsertGameColumns == {"id", "name", "description", "player_guide", "dm_id",
                      "status", "config", "campaign_id", "created_at"}

\* INSERT INTO games (id, name, description, player_guide, dm_id, status,
\* config, campaign_id, created_at) VALUES (..., 'open', ...); a column the
\* table does not have makes the statement raise sqlite3.OperationalError,
\* which is answered 500 with nothing written.
create_insert_game(p) ==
    LET r == req[p] IN
    /\ r.op = "create" /\ r.pc = "insert_game"
    /\ IF InsertGameColumns \subseteq schema
       THEN /\ games' = [games EXCEPT ![r.game] =
                   [rowid |-> Cardinality({h \in Games: games[h] # NoRow}) + 1,
                    name |-> r.name, dm_id |-> r.agent, status |-> "open", config |-> r.cfg,
                    created_at |-> now, started_at |-> NoTime,
                    completed_at |-> NoTime]]
            /\ req' = [req EXCEPT ![p] = [r EXCEPT !.pc = "insert_dm"]]
       ELSE /\ games' = games
            /\ req' = [req EXCEPT ![p] = Done(r, 500)]
    /\ UNCHANGED <<players, messages, now, tokens, sw, kicked, claimed, polled, schema, resolution>>

\* INSERT INTO players (..., role, status, session_token) VALUES (..., 'dm', 'active', ?)
create_insert_dm(p) ==
    LET r == req[p] IN
    /\ r.op = "create" /\ r.pc = "insert_dm"
    /\ players' = [players EXCEPT ![r.game][r.agent] =
                     [role |-> "dm", status |-> "active",
                      session_token |-> tokens + 1, character_name |-> None]]
    /\ tokens' = tokens + 1
    /\ req' = [req EXCEPT ![p] = [r EXCEPT !.pc = "post_message", !.issued = tokens + 1]]
    /\ UNCHANGED <<games, messages, now, sw, kicked, claimed, polled, schema, resolution>>

----------------------------------------------------------------------------
(* app.py: _inactivity_checker and _close_inactive_games                   *)

NoKey == <<0, 0>>
Asleep == [pc |-> "sleep", now |-> 0, active |-> <<>>, cursor |-> NoKey]

\* SELECT id, name FROM games WHERE status IN ('open', 'in_progress')
active_games == {g \in Games: games[g] # NoRow /\ games[g].status \in {"open", "in_progress"}}

\* The sequences listing each element of S once.
Orders(S) == {q \in [1..Cardinality(S) -> S]: \A g \in S: \E i \in DOMAIN q: q[i] = g}

\* The entry of the game g in idx_games_status ON games(status): the
\* status, then the rowid; 'in_progress' sorts before 'open'.
index_key(g) == <<IF games[g].status = "in_progress" THEN 1 ELSE 2, games[g].rowid>>
key_less(a, b) == a[1] < b[1] \/ (a[1] = b[1] /\ a[2] < b[2])

\* The games of S in the order of the index, in which the query
\* (SEARCH games USING INDEX idx_games_status) returns its rows.
index_scan(S) ==
    CHOOSE q \in Orders(S):
       \A i, j \in DOMAIN q: i < j => key_less(index_key(q[i]), index_key(q[j]))

\* the loop goes on with the next game, or the pass ends (commit, sleep)
sweep_next(w) ==
    IF Len(w.active) <= 1 THEN Asleep
    ELSE [w EXCEPT !.pc = "last_msg", !.active = Tail(w.active)]

\* await asyncio.sleep(interval) returns; timeout <= 0 ends the pass at
\* once; now = datetime.now(); await db.execute(SELECT id, name FROM games
\* ...) steps the statement to its first row and leaves the cursor there.
sweep_begin ==
    LET q == index_scan(active_games) IN
    /\ sw.pc = "sleep"
    /\ Timeout > 0
    /\ sw' = IF q = <<>>
             THEN [pc |-> "fetchall", now |-> now, active |-> <<>>, cursor |-> NoKey]
             ELSE [pc |-> "fetchall", now |-> now, active |-> <<q[1]>>,
                   cursor |-> index_key(q[1])]
    /\ UNCHANGED <<games, players, messages, now, tokens, req, kicked, claimed, polled, schema, resolution>>

\* active_games = await cursor.fetchall(): the first row, then the rows the
\* index holds after the cursor when the fetch runs; a statement that
\* found no row at the execute is finished and returns none.
sweep_fetchall ==
    /\ sw.pc = "fetchall"
    /\ sw' = IF sw.active = <<>> THEN Asleep
             ELSE [sw EXCEPT !.pc = "last_msg",
                             !.active = sw.active \o
                                index_scan({g \in active_games:
                                              key_less(sw.cursor, index_key(g))})]
    /\ UNCHANGED <<games, players, messages, now, tokens, req, kicked, claimed, polled, schema, resolution>>

\* A sweeper that closes every active game, whatever the age of its last
\* message.
sweep_last_msg_eager ==
    LET s == OrderByCreatedAt(GameMsgs(Head(sw.active))) IN
    /\ sw.pc = "last_msg"
    /\ sw' = IF Len(s) = 0 THEN [sw EXCEPT !.pc = "created_at"]
             ELSE [sw EXCEPT !.pc = "update"]
    /\ UNCHANGED <<games, players, messages, now, tokens, req, kicked, claimed, polled, schema, resolution>>

\* SELECT created_at FROM messages WHERE game_id = ? ORDER BY created_at DESC LIMIT 1
sweep_last_msg ==
    LET g == Head(sw.active)
        s == OrderByCreatedAt(GameMsgs(g)) IN
    /\ sw.pc = "last_msg"
    /\ sw' = IF Len(s) = 0 THEN [sw EXCEPT !.pc = "created_at"]
             ELSE IF sw.now - s[Len(s)].created_at.t >= Timeout
                  THEN [sw EXCEPT !.pc = "update"]
                  ELSE sweep_next(sw)
    /\ UNCHANGED <<games, players, messages, now, tokens, req, kicked, claimed, polled, schema, resolution>>

\* SELECT created_at FROM games WHERE id = ?
sweep_created_at ==
    LET g == Head(sw.active) IN
    /\ sw.pc = "created_at"
    /\ sw' = IF sw.now - games[g].created_at >= Timeout
             THEN [sw EXCEPT !.pc = "update"]
             ELSE sweep_next(sw)
    /\ UNCHANGED <<games, players, messages, now, tokens, req, kicked, claimed, polled, schema, resolution>>

\* UPDATE games SET status = 'completed', completed_at = ? WHERE id = ?
sweep_update ==
    LET g == Head(sw.active) IN
    /\ sw.pc = "update"
    /\ games' = [games EXCEPT ![g] =
                   [@ EXCEPT !.status = "completed", !.completed_at = sw.now]]
    /\ sw' = [sw EXCEPT !.pc = "post_message"]
    /\ UNCHANGED <<players, messages, now, tokens, req, kicked, claimed, polled, schema, resolution>>

\* await post_message(game_id, None, "Game closed due to inactivity ...", "system")
sweep_post ==
    LET g == Head(sw.active) IN
    /\ sw.pc = "post_message"
    /\ messages' = post_message(g, None, "Game closed due to inactivity (60 minutes with no messages).", "system", NoMeta, NoImage, {})
    /\ sw' = sweep_next(sw)
    /\ UNCHANGED <<games, players, now, tokens, req, kicked, claimed, polled, schema, resolution>>

\* A statement awaited by the pass raises (the database is locked, the disk
\* is full): _inactivity_checker logs the exception and sleeps again; what
\* the pass has written so far stays written.
sweep_fail ==
    /\ sw.pc # "sleep"
    /\ sw' = Asleep
    /\ UNCHANGED <<games, players, messages, now, tokens, req, kicked, claimed, polled, schema, resolution>>

sweep ==
    \/ sweep_begin
    \/ sweep_fetchall
    \/ sweep_last_msg
    \/ sweep_created_at
    \/ sweep_update
    \/ sweep_post

\* Time passes.
Tick ==
    /\ now < MaxTime
    /\ now' = now + 1
    /\ UNCHANGED <<games, players, messages, tokens, req, sw, kicked, claimed, polled, schema, resolution>>

----------------------------------------------------------------------------
(* The server after start-up: init_db on an empty store, the agents        *)
(* registered, no request in flight, the sweeper asleep.                   *)

NoPoll == [agent |-> None, game |-> "g1", after |-> NoId, limit |-> DefaultLimit,
           messages |-> <<>>, latest |-> NoId, count |-> 0]

\* init_db runs db.SCHEMA, whose CREATE TABLE IF NOT EXISTS games makes the
\* table with the columns SCHEMA_games in a new database file and leaves
\* the table of an existing file as it is, here one that has the column
\* player_guide as well.
Init ==
    /\ games = [g \in Games |-> NoRow]
    /\ players = [g \in Games |-> [a \in Agents |-> NoRow]]
    /\ messages = <<>>
    /\ now = 0
    /\ tokens = 0
    /\ req = [p \in Slots |-> Idle]
    /\ sw = Asleep
    /\ kicked = {}
    /\ claimed = {}
    /\ polled = NoPoll
    /\ schema \in {SCHEMA_games, SCHEMA_games \cup {"player_guide"}}
    /\ resolution \in {"fine", "coarse"}

----------------------------------------------------------------------------
(* Specifications                                                          *)

\* The X-Session-Token a client of agent a holds for game g: the token its
\* membership was issued (absent when it has none).
held_token(g, a) ==
    IF games[g] # NoRow /\ players[g][a] # NoRow
    THEN players[g][a].session_token ELSE NoToken

MessageIds == {NoId} \cup (1..Len(messages))

\* Requests are started while the tables are within the model's bounds.
Room == Len(messages) < MaxMsgs
RoomFor(n) == Len(messages) < n
Spare == tokens < MaxTokens

\* No request is in flight (slot r1 handles them one at a time); the
\* sweeper sleeps.
Quiet == req["r1"].pc = "idle"
Calm == sw.pc = "sleep"

(* One game, its narrator dm and one player a1, who post ooc messages,     *)
(* public or whispered to the outsider a2.                                 *)
SetUp(p) ==
    \/ Room /\ Spare /\ fresh_game("g1") /\ start(p, CreateReq("dm", "g1", "The Keep", DefaultConfig))
    \/ Room /\ Spare /\ start(p, JoinReq("a1", "g1", None))
    \/ create_insert_game(p)
    \/ create_insert_dm(p)
    \/ join_get_game(p)
    \/ join_existing(p)
    \/ join_count(p)
    \/ insert_player(p)
    \/ announce(p)

PostingBy(p, agents, recipients, afters) ==
    \/ \E a \in agents, to \in recipients, after \in afters:
          Room /\ start(p, PostReq(a, "g1", "ooc", "hi", NoImage, to, after, held_token("g1", a)))
    \/ post_get_game(p)
    \/ post_get_player(p)
    \/ post_validate_token(p)
    \/ post_staleness(p)
    \/ post_insert(p)
    \/ respond(p)

Posting(p, recipients, afters) == PostingBy(p, {"dm", "a1"}, recipients, afters)

(* Concurrent posts: slot r1 handles any request, slot r2 a post that runs *)
(* concurrently with it.                                                   *)
NextPost ==
    \/ SetUp("r1")
    \/ \E p \in Slots: Posting(p, {{}}, MessageIds)

SpecPost == Init /\ [][NextPost]_vars

(* The order of the log: slot r1 handles the requests that set the game up *)
(* and the player's posts and engine actions, slot r2, concurrently, the   *)
(* narrator's posts, public and whispered, without after or with after =  *)
(* the id of the creation message.                                         *)
NextOrder ==
    \/ SetUp("r1")
    \/ PostingBy("r1", {"a1"}, {{}}, {NoId})
    \/ PostingBy("r2", {"dm"}, {{}, {"a2"}}, {NoId, 1})
    \/ Room /\ start("r1", EngineReq("a1", "g1", "narrate", "Coggy", held_token("g1", "a1")))
    \/ engine_get_player("r1")
    \/ engine_validate_token("r1")
    \/ engine_load("r1")
    \/ engine_post("r1")

SpecOrder == Init /\ [][NextOrder]_vars

(* Clients that poll and post, public messages and whispers, without      *)
(* after or with the latest_message_id of the last poll; the polls are     *)
(* from the start, after the creation message or after the message of id   *)
(* 3, which may not exist yet; requests, polls included, are handled one   *)
(* at a time.                                                              *)
NextPoll ==
    \/ SetUp("r1")
    \/ Posting("r1", {{}, {"a2"}}, {NoId, polled.latest})
    \/ \E a \in {"dm", "a1"}, after \in {NoId, 1, 3}, limit \in {1, DefaultLimit}:
          start("r1", PollReq(a, "g1", after, limit, FALSE))
    \/ poll_step("r1")

SpecPoll == Init /\ [][NextPoll]_vars

(* The same clients on a host whose clock is fine: no two messages carry   *)
(* the same created_at.                                                    *)
FineClock == resolution = "fine"

NextPage == FineClock /\ NextPoll

SpecPage == Init /\ [][NextPage]_vars

(* Readers with default query parameters: a game in which public messages *)
(* and whispers to a2 are posted, without after or with after = the id of  *)
(* the creation message, while the outsider a2 polls it from the start; a  *)
(* poll is handled concurrently with the other requests, its statements    *)
(* interleaved with theirs.                                                *)
NextRead ==
    \/ SetUp("r1")
    \/ Posting("r1", {{}, {"a2"}}, {NoId, 1})
    \/ start("r2", PollReq("a2", "g1", NoId, DefaultLimit, FALSE))
    \/ poll_get_game("r2")
    \/ poll_select("r2")
    \/ poll_fetchall("r2")
    \/ poll_role("r2")
    \/ respond("r2")

SpecRead == Init /\ [][NextRead]_vars

(* The lifecycle: the narrator's start and end requests, handled           *)
(* concurrently, and the sweeper.                                          *)
NextLife ==
    \/ \E p \in Slots:
          \/ Room /\ Spare /\ fresh_game("g1") /\ start(p, CreateReq("dm", "g1", "The Keep", DefaultConfig))
          \/ Room /\ start(p, StartReq("dm", "g1"))
          \/ Room /\ start(p, EndReq("dm", "g1"))
          \/ create_insert_game(p)
          \/ create_insert_dm(p)
          \/ verify_dm(p)
          \/ start_get_game(p)
          \/ start_update(p)
          \/ end_get_game(p)
          \/ end_update(p)
          \/ announce(p)
          \/ respond(p)
    \/ Room /\ sweep_begin
    \/ sweep_fetchall
    \/ sweep_last_msg
    \/ sweep_created_at
    \/ sweep_update
    \/ sweep_post
    \/ Tick

SpecLife == Init /\ [][NextLife]_vars

(* The roster: join, leave and the narrator's admin actions, handled one   *)
(* at a time.                                                              *)
MaxEvents == 5      \* roster requests start only while fewer messages exist

NextRoster ==
    \/ Room /\ Spare /\ fresh_game("g1") /\ start("r1", CreateReq("dm", "g1", "The Keep", DefaultConfig))
    \/ \E a \in {"a1", "a2"}:
          \/ RoomFor(MaxEvents) /\ Spare /\ start("r1", JoinReq(a, "g1", None))
          \/ RoomFor(MaxEvents) /\ start("r1", LeaveReq(a, "g1"))
    \/ \E t \in {"a1"}:
          \/ RoomFor(MaxEvents) /\ start("r1", KickReq("dm", "g1", t, ""))
          \/ RoomFor(MaxEvents) /\ start("r1", MuteReq("dm", "g1", t))
          \/ RoomFor(MaxEvents) /\ start("r1", UnmuteReq("dm", "g1", t))
          \/ RoomFor(MaxEvents) /\ Spare /\ start("r1", InviteReq("dm", "g1", t))
    \/ start("r1", ConfigReq("dm", "g1", [max_players |-> 1, allow_mid_session_join |-> FALSE]))
    \/ create_insert_game("r1")
    \/ create_insert_dm("r1")
    \/ join_get_game("r1")
    \/ join_existing("r1")
    \/ join_count("r1")
    \/ insert_player("r1")
    \/ leave_get_game("r1")
    \/ leave_get_player("r1")
    \/ leave_delete("r1")
    \/ verify_dm("r1")
    \/ update_config("r1")
    \/ kick_find("r1")
    \/ kick_update("r1")
    \/ mute_update("r1")
    \/ unmute_update("r1")
    \/ invite_agent("r1")
    \/ invite_existing("r1")
    \/ announce("r1")
    \/ respond("r1")

SpecRoster == Init /\ [][NextRoster]_vars

(* Muting: the narrator mutes and unmutes the player a1, who posts with    *)
(* the token of its membership; requests are handled one at a time.        *)
NextMute ==
    \/ SetUp("r1")
    \/ RoomFor(MaxEvents) /\ start("r1", MuteReq("dm", "g1", "a1"))
    \/ RoomFor(MaxEvents) /\ start("r1", UnmuteReq("dm", "g1", "a1"))
    \/ \E after \in MessageIds:
          RoomFor(MaxEvents) /\ start("r1", PostReq("a1", "g1", "ooc", "hi", NoImage, {}, after,
                                                    held_token("g1", "a1")))
    \/ verify_dm("r1")
    \/ mute_update("r1")
    \/ unmute_update("r1")
    \/ post_get_game("r1")
    \/ post_get_player("r1")
    \/ post_validate_token("r1")
    \/ post_staleness("r1")
    \/ post_insert("r1")
    \/ respond("r1")

SpecMute == Init /\ [][NextMute]_vars

(* Sweeper passes over two games of the narrator, one of them started,     *)
(* in which the narrator posts; a pass runs while no request is in flight  *)
(* and a request starts while the sweeper sleeps.                          *)
NextSweep ==
    \/ \E g \in Games:
          Room /\ Spare /\ Calm /\ fresh_game(g) /\ start("r1", CreateReq("dm", g, "The Keep", DefaultConfig))
    \/ Room /\ Calm /\ start("r1", StartReq("dm", "g1"))
    \/ Room /\ Calm /\ start("r1", PostReq("dm", "g2", "ooc", "hi", NoImage, {}, NoId,
                                            held_token("g2", "dm")))
    \/ create_insert_game("r1")
    \/ create_insert_dm("r1")
    \/ verify_dm("r1")
    \/ start_get_game("r1")
    \/ start_update("r1")
    \/ announce("r1")
    \/ post_get_game("r1")
    \/ post_get_player("r1")
    \/ post_validate_token("r1")
    \/ post_insert("r1")
    \/ respond("r1")
    \/ Room /\ Quiet /\ sweep_begin
    \/ sweep_fetchall
    \/ sweep_last_msg
    \/ sweep_update
    \/ sweep_post
    \/ Quiet /\ Tick

SpecSweep == Init /\ [][NextSweep]_vars

(* Joining a game of capacity one: the joins of a1 and a2, handled         *)
(* concurrently.                                                           *)
NextJoin ==
    \/ Room /\ Spare /\ fresh_game("g1")
          /\ start("r1", CreateReq("dm", "g1", "The Keep", [max_players |-> 1,
                                                allow_mid_session_join |-> TRUE]))
    \/ \E p \in Slots:
          \/ \E a \in {"a1", "a2"}: Room /\ Spare /\ start(p, JoinReq(a, "g1", None))
          \/ create_insert_game(p)
          \/ create_insert_dm(p)
          \/ join_get_game(p)
          \/ join_existing(p)
          \/ join_count(p)
          \/ insert_player(p)
          \/ announce(p)
          \/ respond(p)

SpecJoin == Init /\ [][NextJoin]_vars

(* Entering a game: the joins of a1 and a2 while the narrator starts and   *)
(* ends the game, kicks a1 and restricts the game to one player and no     *)
(* mid-session join; requests are handled one at a time.                   *)
NextEntry ==
    \/ Room /\ fresh_game("g1") /\ start("r1", CreateReq("dm", "g1", "The Keep", DefaultConfig))
    \/ \E a \in {"a1", "a2"}: RoomFor(MaxEvents) /\ start("r1", JoinReq(a, "g1", None))
    \/ Room /\ start("r1", KickReq("dm", "g1", "a1", ""))
    \/ Room /\ start("r1", StartReq("dm", "g1"))
    \/ Room /\ start("r1", EndReq("dm", "g1"))
    \/ start("r1", ConfigReq("dm", "g1", [max_players |-> 1, allow_mid_session_join |-> FALSE]))
    \/ create_insert_game("r1")
    \/ create_insert_dm("r1")
    \/ join_get_game("r1")
    \/ join_existing("r1")
    \/ join_count("r1")
    \/ insert_player("r1")
    \/ verify_dm("r1")
    \/ kick_find("r1")
    \/ kick_update("r1")
    \/ start_get_game("r1")
    \/ start_update("r1")
    \/ end_get_game("r1")
    \/ end_update("r1")
    \/ update_config("r1")
    \/ announce("r1")
    \/ respond("r1")

SpecEntry == Init /\ [][NextEntry]_vars

(* Tokens: the narrator creates two games, a1 joins g1, leaves and comes   *)
(* back by join or invitation, and both post to g1 presenting any token    *)
(* issued so far, or none; requests are handled one at a time.             *)
NextToken ==
    \/ \E g \in Games:
          Room /\ Spare /\ fresh_game(g) /\ start("r1", CreateReq("dm", g, "The Keep", DefaultConfig))
    \/ Room /\ Spare /\ start("r1", JoinReq("a1", "g1", None))
    \/ Room /\ Spare /\ start("r1", InviteReq("dm", "g1", "a1"))
    \/ Room /\ start("r1", LeaveReq("a1", "g1"))
    \/ \E a \in {"dm", "a1"}, tok \in 0..tokens:
          RoomFor(MaxEvents) /\ start("r1", PostReq(a, "g1", "ooc", "hi", NoImage, {}, NoId, tok))
    \/ create_insert_game("r1")
    \/ create_insert_dm("r1")
    \/ join_get_game("r1")
    \/ join_existing("r1")
    \/ join_count("r1")
    \/ verify_dm("r1")
    \/ invite_agent("r1")
    \/ invite_existing("r1")
    \/ insert_player("r1")
    \/ leave_get_game("r1")
    \/ leave_get_player("r1")
    \/ leave_delete("r1")
    \/ post_get_game("r1")
    \/ post_get_player("r1")
    \/ post_validate_token("r1")
    \/ post_insert("r1")
    \/ announce("r1")
    \/ respond("r1")

SpecToken == Init /\ [][NextToken]_vars

(* The roster and lifecycle operations called by the narrator, by a        *)
(* player and by a non-member, on any target; requests are handled one at  *)
(* a time.                                                                 *)
NextAdmin ==
    \/ Room /\ Spare /\ fresh_game("g1") /\ start("r1", CreateReq("dm", "g1", "The Keep", DefaultConfig))
    \/ Room /\ Spare /\ start("r1", JoinReq("a1", "g1", None))
    \/ \E a \in {"dm", "a1"}: Room /\ start("r1", LeaveReq(a, "g1"))
    \/ \E c \in {"dm", "a1"}:
          \/ Room /\ start("r1", StartReq(c, "g1"))
          \/ Room /\ start("r1", EndReq(c, "g1"))
          \/ start("r1", ConfigReq(c, "g1", [max_players |-> 1,
                                             allow_mid_session_join |-> FALSE]))
    \/ \E c \in {"dm", "a1"}, t \in Agents:
          \/ Room /\ start("r1", KickReq(c, "g1", t, ""))
          \/ Room /\ start("r1", MuteReq(c, "g1", t))
          \/ Room /\ start("r1", UnmuteReq(c, "g1", t))
          \/ Room /\ Spare /\ start("r1", InviteReq(c, "g1", t))
    \/ create_insert_game("r1")
    \/ create_insert_dm("r1")
    \/ join_get_game("r1")
    \/ join_existing("r1")
    \/ join_count("r1")
    \/ insert_player("r1")
    \/ leave_get_game("r1")
    \/ leave_get_player("r1")
    \/ leave_delete("r1")
    \/ verify_dm("r1")
    \/ start_get_game("r1")
    \/ start_update("r1")
    \/ end_get_game("r1")
    \/ end_update("r1")
    \/ update_config("r1")
    \/ kick_find("r1")
    \/ kick_update("r1")
    \/ mute_update("r1")
    \/ unmute_update("r1")
    \/ invite_agent("r1")
    \/ invite_existing("r1")
    \/ announce("r1")
    \/ respond("r1")

SpecAdmin == Init /\ [][NextAdmin]_vars

(* Kicking: the narrator mutes a1 and kicks any agent; a1 joins, leaves    *)
(* and posts with the token of its membership; requests are handled one    *)
(* at a time.                                                              *)
NextKick ==
    \/ Room /\ Spare /\ fresh_game("g1") /\ start("r1", CreateReq("dm", "g1", "The Keep", DefaultConfig))
    \/ RoomFor(MaxEvents) /\ Spare /\ start("r1", JoinReq("a1", "g1", None))
    \/ RoomFor(MaxEvents) /\ start("r1", LeaveReq("a1", "g1"))
    \/ RoomFor(MaxEvents) /\ start("r1", MuteReq("dm", "g1", "a1"))
    \/ \E t \in Agents: RoomFor(MaxEvents) /\ start("r1", KickReq("dm", "g1", t, ""))
    \/ RoomFor(MaxEvents + 1)
          /\ start("r1", PostReq("a1", "g1", "ooc", "hi", NoImage, {}, NoId, held_token("g1", "a1")))
    \/ create_insert_game("r1")
    \/ create_insert_dm("r1")
    \/ join_get_game("r1")
    \/ join_existing("r1")
    \/ join_count("r1")
    \/ insert_player("r1")
    \/ leave_get_game("r1")
    \/ leave_get_player("r1")
    \/ leave_delete("r1")
    \/ verify_dm("r1")
    \/ mute_update("r1")
    \/ kick_find("r1")
    \/ kick_update("r1")
    \/ post_get_game("r1")
    \/ post_get_player("r1")
    \/ post_validate_token("r1")
    \/ post_insert("r1")
    \/ announce("r1")
    \/ respond("r1")

SpecKick == Init /\ [][NextKick]_vars

(* The checks of a post: the narrator, the player a1 and the outsider a2   *)
(* post messages of any type, recognised or not, with clean, blocked or    *)
(* JSON content, with or without a message id seen last, presenting no     *)
(* token, their own or the narrator's, before and after the start of the   *)
(* game, and posts carrying an image URL (plain http, a loopback or a      *)
(* private address, a public https host); requests are handled one at a    *)
(* time.                                                                   *)
PostTypes == {"ooc", "sheet", "action", "narrative", "bogus"}
PostContents == {"hi", "slur", "J_narr"}

NextGate ==
    \/ Room /\ Spare /\ fresh_game("g1") /\ start("r1", CreateReq("dm", "g1", "The Keep", DefaultConfig))
    \/ Room /\ Spare /\ start("r1", JoinReq("a1", "g1", None))
    \/ Room /\ start("r1", StartReq("dm", "g1"))
    \/ \E a \in Agents, typ \in PostTypes, content \in PostContents, after \in {NoId, 1}:
          \E tok \in {NoToken, held_token("g1", a), held_token("g1", "dm")}:
          Room /\ start("r1", PostReq(a, "g1", typ, content, NoImage, {}, after, tok))
    \/ \E a \in {"dm", "a1"}, typ \in {"ooc", "action"}, after \in {NoId, 1},
          image_url \in ImageUrls:
          Room /\ start("r1", PostReq(a, "g1", typ, "hi", image_url, {}, after,
                                      held_token("g1", a)))
    \/ create_insert_game("r1")
    \/ create_insert_dm("r1")
    \/ join_get_game("r1")
    \/ join_existing("r1")
    \/ join_count("r1")
    \/ insert_player("r1")
    \/ verify_dm("r1")
    \/ start_get_game("r1")
    \/ start_update("r1")
    \/ post_get_game("r1")
    \/ post_get_player("r1")
    \/ post_validate_token("r1")
    \/ post_staleness("r1")
    \/ post_insert("r1")
    \/ announce("r1")
    \/ respond("r1")

SpecGate == Init /\ [][NextGate]_vars

(* Narration: in a game with the player a1 (character Rook) the narrator  *)
(* and a1 post plain text and JSON objects with a narration field, as ooc, *)
(* action, narrative or system messages, with or without metadata naming   *)
(* who is to respond; requests are handled one at a time.                  *)
SubmittedMeta == {NoMeta, Meta({}, <<>>), Meta({"mood"}, <<>>),
                  Meta({"respond"}, <<"Vex">>)}

NextNarr ==
    \/ Room /\ Spare /\ fresh_game("g1") /\ start("r1", CreateReq("dm", "g1", "The Keep", DefaultConfig))
    \/ Room /\ Spare /\ start("r1", JoinReq("a1", "g1", "Rook"))
    \/ Room /\ start("r1", StartReq("dm", "g1"))
    \/ \E a \in {"dm", "a1"}, typ \in {"ooc", "action", "narrative", "system"},
          content \in {"hi", "J_narr", "J_full"}, metadata \in SubmittedMeta:
          Room /\ start("r1", [PostReq(a, "g1", typ, content, NoImage, {}, NoId,
                                       held_token("g1", a)) EXCEPT !.metadata = metadata])
    \/ create_insert_game("r1")
    \/ create_insert_dm("r1")
    \/ join_get_game("r1")
    \/ join_existing("r1")
    \/ join_count("r1")
    \/ insert_player("r1")
    \/ verify_dm("r1")
    \/ start_get_game("r1")
    \/ start_update("r1")
    \/ post_get_game("r1")
    \/ post_get_player("r1")
    \/ post_validate_token("r1")
    \/ post_insert("r1")
    \/ post_whisper("r1")
    \/ post_whisper_insert("r1")
    \/ announce("r1")
    \/ respond("r1")

SpecNarr == Init /\ [][NextNarr]_vars

(* Whispers: the narrator has two games; a1 plays Rook in g1, a2 plays     *)
(* Rook in g1 or in g2; in the started g1 the narrator posts narrations    *)
(* with whispers to Rook, to nobody, to a character nobody plays, or with  *)
(* no text; requests are handled one at a time.                            *)
NextWhisper ==
    \/ \E g \in Games:
          \/ Room /\ fresh_game(g) /\ start("r1", CreateReq("dm", g, "The Keep", DefaultConfig))
          \/ Room /\ start("r1", JoinReq("a2", g, "Rook"))
    \/ Room /\ start("r1", JoinReq("a1", "g1", "Rook"))
    \/ Room /\ start("r1", StartReq("dm", "g1"))
    \/ \E content \in {"J_full", "J_void", "J_narr"}:
          RoomFor(MaxEvents)
          /\ start("r1", PostReq("dm", "g1", "narrative", content, NoImage, {}, NoId,
                                 held_token("g1", "dm")))
    \/ create_insert_game("r1")
    \/ create_insert_dm("r1")
    \/ join_get_game("r1")
    \/ join_existing("r1")
    \/ join_count("r1")
    \/ insert_player("r1")
    \/ verify_dm("r1")
    \/ start_get_game("r1")
    \/ start_update("r1")
    \/ post_get_game("r1")
    \/ post_get_player("r1")
    \/ post_validate_token("r1")
    \/ post_insert("r1")
    \/ post_whisper("r1")
    \/ post_whisper_insert("r1")
    \/ announce("r1")
    \/ respond("r1")

SpecWhisper == Init /\ [][NextWhisper]_vars

(* Failing passes: the narrator creates two games, starts and ends g1;    *)
(* the sweeper's passes may fail at any statement; a pass runs while no    *)
(* request is in flight and a request starts while the sweeper sleeps.     *)
NextFail ==
    \/ \E g \in Games:
          Room /\ Spare /\ fresh_game(g) /\ Calm /\ start("r1", CreateReq("dm", g, "The Keep", DefaultConfig))
    \/ Room /\ Calm /\ start("r1", StartReq("dm", "g1"))
    \/ Room /\ Calm /\ start("r1", EndReq("dm", "g1"))
    \/ create_insert_game("r1")
    \/ create_insert_dm("r1")
    \/ verify_dm("r1")
    \/ start_get_game("r1")
    \/ start_update("r1")
    \/ end_get_game("r1")
    \/ end_update("r1")
    \/ announce("r1")
    \/ respond("r1")
    \/ Room /\ Quiet /\ sweep_begin
    \/ sweep_fetchall
    \/ sweep_last_msg
    \/ sweep_update
    \/ sweep_post
    \/ sweep_fail
    \/ Quiet /\ Tick

SpecFail == Init /\ [][NextFail]_vars

(* Message types: the narrator and the player a1 post ooc, action, roll,   *)
(* narrative and system messages and submit engine actions (narrate, and   *)
(* damage, which is reserved to the narrator); requests are handled one at *)
(* a time.                                                                 *)
NextKind ==
    \/ Room /\ Spare /\ fresh_game("g1") /\ start("r1", CreateReq("dm", "g1", "The Keep", DefaultConfig))
    \/ Room /\ Spare /\ start("r1", JoinReq("a1", "g1", None))
    \/ Room /\ start("r1", StartReq("dm", "g1"))
    \/ \E a \in {"dm", "a1"}, typ \in {"ooc", "action", "roll", "narrative", "system"}:
          RoomFor(MaxEvents)
          /\ start("r1", PostReq(a, "g1", typ, "hi", NoImage, {}, NoId, held_token("g1", a)))
    \/ create_insert_game("r1")
    \/ create_insert_dm("r1")
    \/ join_get_game("r1")
    \/ join_existing("r1")
    \/ join_count("r1")
    \/ insert_player("r1")
    \/ verify_dm("r1")
    \/ start_get_game("r1")
    \/ start_update("r1")
    \/ \E a \in {"dm", "a1"}, action_type \in {"narrate", "damage"}:
          RoomFor(MaxEvents)
          /\ start("r1", EngineReq(a, "g1", action_type, "Coggy", held_token("g1", a)))
    \/ post_get_game("r1")
    \/ post_get_player("r1")
    \/ post_validate_token("r1")
    \/ post_insert("r1")
    \/ engine_get_player("r1")
    \/ engine_validate_token("r1")
    \/ engine_load("r1")
    \/ engine_post("r1")
    \/ announce("r1")
    \/ respond("r1")

SpecKind == Init /\ [][NextKind]_vars

(* The sweeper beside the requests: the narrator's post, start and end    *)
(* requests are handled while a pass of the sweeper is under way.          *)
NextRace ==
    \/ Room /\ Spare /\ fresh_game("g1") /\ start("r1", CreateReq("dm", "g1", "The Keep", DefaultConfig))
    \/ Room /\ start("r1", StartReq("dm", "g1"))
    \/ Room /\ start("r1", EndReq("dm", "g1"))
    \/ Room /\ start("r1", PostReq("dm", "g1", "ooc", "hi", NoImage, {}, NoId, held_token("g1", "dm")))
    \/ create_insert_game("r1")
    \/ create_insert_dm("r1")
    \/ verify_dm("r1")
    \/ start_get_game("r1")
    \/ start_update("r1")
    \/ end_get_game("r1")
    \/ end_update("r1")
    \/ post_get_game("r1")
    \/ post_get_player("r1")
    \/ post_validate_token("r1")
    \/ post_insert("r1")
    \/ announce("r1")
    \/ respond("r1")
    \/ Room /\ sweep_begin
    \/ sweep_fetchall
    \/ sweep_last_msg
    \/ sweep_created_at
    \/ sweep_update
    \/ sweep_post
    \/ Tick

SpecRace == Init /\ [][NextRace]_vars

(* Idle sessions: two sessions are created and g1 is started, and the     *)
(* sweeper loop runs beside the requests; a statement of a pass may raise  *)
(* while the pass handles session g1, in any pass and in every pass.       *)
FailingSession == "g1"

\* The pass is at a statement of the loop body for session g.
Handling(g) ==
    /\ sw.pc \in {"last_msg", "created_at", "update", "post_message"}
    /\ Head(sw.active) = g

\* The steps of the handlers of create and start.
HandleIdle ==
    \/ create_insert_game("r1")
    \/ create_insert_dm("r1")
    \/ verify_dm("r1")
    \/ start_get_game("r1")
    \/ start_update("r1")
    \/ announce("r1")
    \/ respond("r1")

NextIdle ==
    \/ \E g \in Games:
          Room /\ Spare /\ fresh_game(g) /\ start("r1", CreateReq("dm", g, "The Keep", DefaultConfig))
    \/ Room /\ start("r1", StartReq("dm", "g1"))
    \/ HandleIdle
    \/ sweep
    \/ Handling(FailingSession) /\ sweep_fail
    \/ Tick

SpecIdle == Init /\ [][NextIdle]_vars

(* _inactivity_checker is a task of the event loop: whenever the statement *)
(* it awaits has completed it is resumed, and its sleep always returns;    *)
(* so is the handler of a request; the clock advances.                     *)
SpecIdleFair == SpecIdle /\ WF_vars(sweep) /\ WF_vars(HandleIdle) /\ WF_vars(Tick)

(* Seats: a session of capacity 1 whose config is never changed; a1 and   *)
(* a2 join and leave, the narrator kicks, mutes and unmutes them; nobody   *)
(* is invited; requests are handled one at a time.                         *)
NextSeats ==
    \/ Room /\ Spare /\ fresh_game("g1")
          /\ start("r1", CreateReq("dm", "g1", "The Keep", [max_players |-> 1,
                                                allow_mid_session_join |-> TRUE]))
    \/ \E a \in {"a1", "a2"}:
          \/ RoomFor(MaxEvents) /\ Spare /\ start("r1", JoinReq(a, "g1", None))
          \/ RoomFor(MaxEvents) /\ start("r1", LeaveReq(a, "g1"))
          \/ RoomFor(MaxEvents) /\ start("r1", KickReq("dm", "g1", a, ""))
          \/ RoomFor(MaxEvents) /\ start("r1", MuteReq("dm", "g1", a))
          \/ RoomFor(MaxEvents) /\ start("r1", UnmuteReq("dm", "g1", a))
    \/ create_insert_game("r1")
    \/ create_insert_dm("r1")
    \/ join_get_game("r1")
    \/ join_existing("r1")
    \/ join_count("r1")
    \/ insert_player("r1")
    \/ leave_get_game("r1")
    \/ leave_get_player("r1")
    \/ leave_delete("r1")
    \/ verify_dm("r1")
    \/ kick_find("r1")
    \/ kick_update("r1")
    \/ mute_update("r1")
    \/ unmute_update("r1")
    \/ announce("r1")
    \/ respond("r1")

SpecSeats == Init /\ [][NextSeats]_vars

(* After closure: the narrator ends the session; before and after that   *)
(* members post, a1 and a2 join and a1 leaves, the narrator starts and     *)
(* ends the session and kicks, mutes, unmutes and invites; requests are    *)
(* handled one at a time.                                                  *)
NextClosed ==
    \/ Room /\ Spare /\ fresh_game("g1") /\ start("r1", CreateReq("dm", "g1", "The Keep", DefaultConfig))
    \/ \E a \in {"a1", "a2"}: Room /\ Spare /\ start("r1", JoinReq(a, "g1", None))
    \/ RoomFor(MaxEvents) /\ start("r1", LeaveReq("a1", "g1"))
    \/ Room /\ start("r1", StartReq("dm", "g1"))
    \/ Room /\ start("r1", EndReq("dm", "g1"))
    \/ \E a \in {"dm", "a1"}, typ \in {"ooc", "action"}, content \in {"hi", "slur"}:
          \E tok \in {NoToken, held_token("g1", a)}, after \in {NoId, 3}:
          RoomFor(MaxEvents) /\ start("r1", PostReq(a, "g1", typ, content, NoImage, {}, after, tok))
    \/ \E t \in {"a1", "a2"}:
          \/ RoomFor(MaxEvents) /\ start("r1", KickReq("dm", "g1", t, ""))
          \/ RoomFor(MaxEvents) /\ start("r1", MuteReq("dm", "g1", t))
          \/ RoomFor(MaxEvents) /\ start("r1", UnmuteReq("dm", "g1", t))
          \/ RoomFor(MaxEvents) /\ Spare /\ start("r1", InviteReq("dm", "g1", t))
    \/ create_insert_game("r1")
    \/ create_insert_dm("r1")
    \/ join_get_game("r1")
    \/ join_existing("r1")
    \/ join_count("r1")
    \/ insert_player("r1")
    \/ leave_get_game("r1")
    \/ leave_get_player("r1")
    \/ leave_delete("r1")
    \/ verify_dm("r1")
    \/ start_get_game("r1")
    \/ start_update("r1")
    \/ end_get_game("r1")
    \/ end_update("r1")
    \/ kick_find("r1")
    \/ kick_update("r1")
    \/ mute_update("r1")
    \/ unmute_update("r1")
    \/ invite_agent("r1")
    \/ invite_existing("r1")
    \/ post_get_game("r1")
    \/ post_get_player("r1")
    \/ post_validate_token("r1")
    \/ post_staleness("r1")
    \/ post_insert("r1")
    \/ announce("r1")
    \/ respond("r1")

SpecClosed == Init /\ [][NextClosed]_vars

(* Every operation, one at a time: one game with its narrator dm and the   *)
(* player a1 (character Rook); a request starts when the sweeper sleeps,   *)
(* a sweeper pass starts and the clock ticks when no request is in flight. *)
(* No creation being interrupted, a pass meets no game without messages.   *)
Next ==
    \/ Room /\ Spare /\ fresh_game("g1") /\ Calm /\ start("r1", CreateReq("dm", "g1", "The Keep", DefaultConfig))
    \/ Room /\ Spare /\ Calm /\ start("r1", JoinReq("a1", "g1", "Rook"))
    \/ Room /\ Calm /\ start("r1", LeaveReq("a1", "g1"))
    \/ Room /\ Calm /\ start("r1", StartReq("dm", "g1"))
    \/ Room /\ Calm /\ start("r1", EndReq("dm", "g1"))
    \/ Calm /\ start("r1", ConfigReq("dm", "g1", [max_players |-> 1, allow_mid_session_join |-> FALSE]))
    \/ Room /\ Calm /\ start("r1", KickReq("dm", "g1", "a1", ""))
    \/ Room /\ Calm /\ start("r1", MuteReq("dm", "g1", "a1"))
    \/ Room /\ Calm /\ start("r1", UnmuteReq("dm", "g1", "a1"))
    \/ Room /\ Spare /\ Calm /\ start("r1", InviteReq("dm", "g1", "a1"))
    \/ Room /\ Calm /\ start("r1", PostReq("dm", "g1", "narrative", "J_full", NoImage, {}, NoId,
                                   held_token("g1", "dm")))
    \/ \E after \in {NoId, 1}:
          Room /\ Calm /\ start("r1", PostReq("a1", "g1", "ooc", "hi", NoImage, {}, after,
                                      held_token("g1", "a1")))
    \/ Room /\ Calm /\ start("r1", EngineReq("a1", "g1", "narrate", "Coggy", held_token("g1", "a1")))
    \/ create_insert_game("r1")
    \/ create_insert_dm("r1")
    \/ join_get_game("r1")
    \/ join_existing("r1")
    \/ join_count("r1")
    \/ insert_player("r1")
    \/ leave_get_game("r1")
    \/ leave_get_player("r1")
    \/ leave_delete("r1")
    \/ verify_dm("r1")
    \/ start_get_game("r1")
    \/ start_update("r1")
    \/ end_get_game("r1")
    \/ end_update("r1")
    \/ update_config("r1")
    \/ kick_find("r1")
    \/ kick_update("r1")
    \/ mute_update("r1")
    \/ unmute_update("r1")
    \/ invite_agent("r1")
    \/ invite_existing("r1")
    \/ announce("r1")
    \/ post_get_game("r1")
    \/ post_get_player("r1")
    \/ post_validate_token("r1")
    \/ post_staleness("r1")
    \/ post_insert("r1")
    \/ post_whisper("r1")
    \/ post_whisper_insert("r1")
    \/ engine_get_player("r1")
    \/ engine_validate_token("r1")
    \/ engine_load("r1")
    \/ engine_post("r1")
    \/ respond("r1")
    \/ Room /\ Quiet /\ sweep_begin
    \/ sweep_fetchall
    \/ sweep_last_msg
    \/ sweep_update
    \/ sweep_post
    \/ Quiet /\ Tick

Spec == Init /\ [][Next]_vars

----------------------------------------------------------------------------
(* Properties                                                              *)

Requesters == Agents \cup {None}      \* None: no (valid) Authorization header
Limits == (1..MaxLimit) \cup {DefaultLimit}

\* The visibility rule of the specification.
MayRead(m, r) ==
    \/ m.to_agents = {}
    \/ r # None /\ (r = m.agent_id \/ r \in m.to_agents)

Contains(s, m) == \E k \in 1..Len(s): s[k] = m

\* The most recently appended message of a session (None when it has none).
Head_(g) == IF Len(GameMsgs(g)) = 0 THEN NoId ELSE GameMsgs(g)[Len(GameMsgs(g))].id

\* Some message was appended to the session after message x.
Superseded(g, x) ==
    \E i \in 1..Len(GameMsgs(g)): GameMsgs(g)[i].id = x /\ i < Len(GameMsgs(g))

\* C3: with default query parameters the list and the single-message lookup
\* return a message to a requester exactly when it has no to_agents, or the
\* requester is its author, or the requester is listed in to_agents; the
\* lookup answers 404 otherwise.
C3_WhisperVisibility ==
    \A r \in Requesters: \A i \in 1..Len(messages):
        LET m == messages[i]
            list == get_game_messages(m.game_id, r, NoId, DefaultLimit, FALSE)
            one == get_single_message(m.game_id, m.id, r)
        IN  /\ list.code = 200
            /\ Contains(list.messages, m) <=> MayRead(m, r)
            /\ IF MayRead(m, r) THEN one.code = 200 /\ one.message = m
               ELSE one.code = 404

\* A whisper from dm to [a2] is stored: dm and a2 get it, a1 and an
\* unauthenticated caller do not.
C3_Witness ==
    \E i \in 1..Len(messages):
        LET m == messages[i] IN
        /\ m.agent_id = "dm" /\ m.to_agents = {"a2"}
        /\ \A r \in {"dm", "a2"}:
              /\ Contains(get_game_messages(m.game_id, r, NoId, DefaultLimit, FALSE).messages, m)
              /\ get_single_message(m.game_id, m.id, r).code = 200
        /\ \A r \in {"a1", None}:
              /\ ~Contains(get_game_messages(m.game_id, r, NoId, DefaultLimit, FALSE).messages, m)
              /\ get_single_message(m.game_id, m.id, r).code = 404

\* C4: on every read path (the list under any query parameters, the
\* single-message lookup, the transcript) a whisper is returned to nobody
\* but its author and its listed recipients.
C4_UniformVisibility ==
    \A r \in Requesters: \A i \in 1..Len(messages):
        LET m == messages[i] IN
        ~MayRead(m, r) =>
            /\ \A after \in MessageIds, limit \in Limits, include_whispers \in BOOLEAN:
                  ~Contains(get_game_messages(m.game_id, r, after, limit,
                                              include_whispers).messages, m)
            /\ get_single_message(m.game_id, m.id, r).code # 200
            /\ ~Contains(get_transcript(m.game_id).lines, m)

\* C5: when the staleness check of a post runs with after = X, the post
\* goes on to append if X is the session's latest message, and is rejected
\* with 409, appending nothing, if a message has been appended after X; a
\* post that reached the append does append and answers 200.
C5_Staleness ==
    [][\A p \in Slots:
          LET r == req[p] IN
          (r.op = "post" /\ req'[p] # r) =>
              /\ (r.pc = "staleness" /\ r.after = Head_(r.game))
                    => req'[p].pc = "post_message"
              /\ (r.pc = "staleness" /\ Superseded(r.game, r.after))
                    => /\ req'[p].pc = "done" /\ req'[p].code = 409
                       /\ messages' = messages
              /\ r.pc = "post_message"
                    => /\ req'[p].pc = "done" /\ req'[p].code = 200
                       /\ Len(messages') = Len(messages) + 1
                       /\ messages'[Len(messages')].agent_id = r.agent
                       /\ messages'[Len(messages')].game_id = r.game]_vars

\* A post with after = X was accepted, and a later post with the same
\* after = X has been rejected with 409.
C5_Witness ==
    \E p \in Slots:
        /\ req[p].op = "post" /\ req[p].pc = "done" /\ req[p].code = 409
        /\ Superseded(req[p].game, req[p].after)
        /\ \E c \in claimed: c[2] = req[p].after

\* C6: for any message id X at most one accepted post supplied after = X.
C6_OneExtender ==
    \A c1 \in claimed, c2 \in claimed: c1[2] = c2[2] => c1 = c2

\* C7: a post that supplies no after is never answered 409.
C7_NoAfterNeverStale ==
    \A p \in Slots:
        (req[p].op = "post" /\ req[p].pc = "done" /\ req[p].after = NoId)
            => req[p].code # 409

\* A post without after is accepted in a session that already holds
\* three messages.
C7_Witness ==
    \E p \in Slots:
        /\ req[p].op = "post" /\ req[p].pc = "done" /\ req[p].after = NoId
        /\ req[p].code = 200
        /\ Len(GameMsgs(req[p].game)) >= 4

\* C8: the latest_message_id of every poll response is the id of the
\* session's most recent message, for every requester, after and limit.
C8_TrueLatestId ==
    \A g \in Games: games[g] # NoRow =>
        \A r \in Requesters, after \in MessageIds, limit \in Limits:
            get_game_messages(g, r, after, limit, FALSE).latest_message_id = Head_(g)

\* C9: a member that posts with after = the latest_message_id of its last
\* poll, nothing having been appended to the session since that poll, is
\* not rejected as stale.
C9_PollThenPost ==
    [][\A p \in Slots:
          LET r == req[p] IN
          ( /\ r.op = "post" /\ r.pc = "staleness" /\ req'[p] # r
            /\ polled.agent = r.agent /\ polled.game = r.game
            /\ polled.latest = r.after
            /\ polled.count = Len(GameMsgs(r.game)) )
          => ~(req'[p].pc = "done" /\ req'[p].code = 409)]_vars

StatusRank(st) == CASE st = "open" -> 0 [] st = "in_progress" -> 1 [] OTHER -> 2

\* C1: a session's status only moves forward: once completed (or cancelled)
\* it is never again open or in_progress, once in_progress never again open.
C1_StatusForward ==
    [][\A g \in Games:
          games[g] # NoRow =>
              /\ games'[g] # NoRow
              /\ StatusRank(games'[g].status) >= StatusRank(games[g].status)]_vars

\* C2: an agent whose membership in a session was ever set to kicked holds
\* no active or muted membership in that session.
C2_KickTerminal ==
    \A g \in Games, a \in Agents:
        <<g, a>> \in kicked =>
            \/ players[g][a] = NoRow
            \/ players[g][a].status \notin {"active", "muted"}

\* C10: the message log is append-only: every step keeps every message
\* already appended, with all its fields, at its place.
C10_AppendOnly ==
    [][/\ Len(messages') >= Len(messages)
       /\ \A i \in 1..Len(messages): messages'[i] = messages[i]]_vars

\* The log holds the messages of a creation, a join and a start, and a
\* narration of the narrator with the whisper extracted from it.
C10_Witness ==
    /\ Len(messages) >= MaxMsgs
    /\ \E i \in 1..Len(messages): messages[i].content = "Game started!"
    /\ \E i \in 1..Len(messages):
          messages[i].agent_id = "dm" /\ messages[i].to_agents # {}

IsPrefix(a, b) == Len(a) <= Len(b) /\ \A k \in 1..Len(a): b[k] = a[k]

\* C11: polls are stable: a poll changes nothing in the store; a poll by
\* the requester of the previous poll, with the same after and limit and
\* no append to the session in between, returns the same messages; and a
\* poll from the start, whatever was appended since the previous poll from
\* the start by the same requester with the same limit, returns the
\* messages of that poll as a prefix, so no two messages change their
\* relative order.
C11_StablePolls ==
    [][/\ \A p \in Slots:
            (req[p].op = "poll" /\ req'[p] # req[p]) =>
               UNCHANGED <<games, players, messages, now, tokens, sw, kicked, claimed, schema, resolution>>
       /\ polled' # polled =>
          /\ UNCHANGED <<games, players, messages, now, tokens, sw, kicked, claimed, schema, resolution>>
          /\ ( /\ polled.agent # None
               /\ polled'.agent = polled.agent /\ polled'.game = polled.game
               /\ polled'.after = polled.after /\ polled'.limit = polled.limit )
             => /\ polled'.count = polled.count =>
                      /\ polled'.messages = polled.messages
                      /\ polled'.latest = polled.latest
                /\ polled.after = NoId =>
                      IsPrefix(polled.messages, polled'.messages)]_vars

\* A poll from the start has returned three messages of a session, the
\* last of them appended after the creation and the player's join.
C11_Witness ==
    /\ polled.agent # None /\ polled.after = NoId
    /\ polled.count >= 3 /\ Len(polled.messages) >= 3

\* C12: every appended message sorts strictly after every message that
\* was in its session when it was appended: the session's retrieval order
\* is the order in which its messages were appended, with strictly
\* increasing created_at; and a poll with after = X returns every message
\* appended after X to every requester who may read it.
C12_AppendsSortLast ==
    \A g \in Games:
        LET s == GameMsgs(g) IN
        /\ OrderByCreatedAt(s) = s
        /\ \A i \in 1..Len(s):
              /\ \A j \in 1..Len(s): i < j => Earlier(s[i].created_at, s[j].created_at)
              /\ \A r \in Requesters:
                    LET got == get_game_messages(g, r, s[i].id, DefaultLimit, FALSE).messages
                    IN  \A j \in 1..Len(s):
                           (i < j /\ MayRead(s[j], r)) => Contains(got, s[j])

\* The messages of session g appended after its k-th message that
\* requester r may read, in the order of their appending.
VisibleAfter(g, k, r) ==
    LET s == GameMsgs(g)
    IN  SelectSeq(SubSeq(s, k + 1, Len(s)), LAMBDA m: MayRead(m, r))

\* C13: a poll with after = X, X a message of the session, returns in
\* ascending order exactly the messages visible to the requester that
\* follow X, capped at limit (so that paging by the last returned id until
\* an empty page meets every visible message once).
C13_ExactPage ==
    \A g \in Games: games[g] # NoRow =>
        \A k \in 1..Len(GameMsgs(g)), r \in Requesters, limit \in Limits:
            get_game_messages(g, r, GameMsgs(g)[k].id, limit, FALSE).messages
                = Limit(VisibleAfter(g, k, r), limit)

Member(g, a) == games[g] # NoRow /\ players[g][a] # NoRow

\* C14: mute blocks writes, not reads: a post whose membership check finds
\* the caller muted is answered 403 and appends nothing; a muted member's
\* get of the session's messages succeeds; mute and unmute leave the
\* member's token as it was, and a post by an active member that presents
\* the membership's token and passes the content checks is not refused.
C14_MuteBlocksWrites ==
    [][/\ \A p \in Slots:
             LET r == req[p] IN
             (r.op = "post" /\ req'[p] # r /\ Member(r.game, r.agent)) =>
                /\ (r.pc = "get_player" /\ players[r.game][r.agent].status = "muted")
                      => /\ req'[p].pc = "done" /\ req'[p].code = 403
                         /\ messages' = messages
                /\ ( /\ r.pc \in {"get_player", "validate_token"}
                     /\ players[r.game][r.agent].status = "active"
                     /\ r.token = players[r.game][r.agent].session_token
                     /\ r.typ = "ooc" /\ moderate_content(r.content) )
                      => req'[p].pc # "done"
       /\ \A g \in Games, a \in Agents:
             (Member(g, a) /\ players[g][a].status = "muted") =>
                /\ get_game_messages(g, a, NoId, DefaultLimit, FALSE).code = 200
                /\ get_game_messages(g, a, NoId, DefaultLimit, FALSE).messages
                      = SelectSeq(GameMsgs(g), LAMBDA m: MayRead(m, a))
                /\ players'[g][a] # NoRow =>
                      players'[g][a].session_token = players[g][a].session_token]_vars

\* a1 was muted and then unmuted, and has since had a post accepted with
\* the token of its membership.
C14_Witness ==
    /\ \E i \in 1..Len(messages):
          /\ messages[i].content = "a1 was unmuted."
          /\ \E j \in 1..Len(messages): j < i /\ messages[j].content = "a1 was muted."
          /\ \E j \in 1..Len(messages): j > i /\ messages[j].agent_id = "a1"
    /\ \E p \in Slots:
          /\ req[p].op = "post" /\ req[p].agent = "a1"
          /\ req[p].pc = "done" /\ req[p].code = 200
          /\ req[p].token = held_token(req[p].game, "a1")

ClosureText == "Game closed due to inactivity (60 minutes with no messages)."

\* The closure messages in the log of session g.
Closures(g) == SelectSeq(GameMsgs(g), LAMBDA m: m.content = ClosureText)

\* Session g is open or in_progress and its most recent message (its
\* creation, if it has none) is at least the timeout older than time t.
Inactive(g, t) ==
    /\ games[g] # NoRow /\ games[g].status \in {"open", "in_progress"}
    /\ LET s == GameMsgs(g)
       IN  IF Len(s) = 0 THEN t - games[g].created_at >= Timeout
           ELSE t - s[Len(s)].created_at.t >= Timeout

\* C15: a sweeper pass, run while no request is handled, closes exactly
\* the inactive sessions: it sets a session completed only if the session
\* is inactive at the time of the pass, then appends one system message
\* recording the closure, and changes nothing else; when the pass ends no
\* session is inactive at the time of the pass, so that a second pass run
\* at that time changes nothing.
C15_SweepPass ==
    [][sw' # sw =>
          /\ UNCHANGED <<players, tokens, req, kicked, claimed, polled, schema, resolution>>
          /\ games' # games =>
                LET g == Head(sw.active) IN
                /\ Inactive(g, sw.now)
                /\ games' = [games EXCEPT ![g] = [@ EXCEPT !.status = "completed",
                                                           !.completed_at = sw.now]]
                /\ messages' = messages /\ sw'.pc = "post_message"
          /\ messages' # messages =>
                LET g == Head(sw.active)
                    m == messages'[Len(messages')] IN
                /\ sw.pc = "post_message" /\ games' = games
                /\ games[g].status = "completed"
                /\ messages' = Append(messages, m)
                /\ m.game_id = g /\ m.type = "system" /\ m.agent_id = None
                /\ m.content = ClosureText /\ m.to_agents = {}
                /\ Len(Closures(g)) = 0
          /\ sw'.pc = "sleep" =>
                \A g \in Games:
                   ~( /\ games'[g] # NoRow /\ games'[g].status \in {"open", "in_progress"}
                      /\ LET s == SelectSeq(messages', LAMBDA m: m.game_id = g)
                         IN  Len(s) > 0 /\ sw.now - s[Len(s)].created_at.t >= Timeout )]_vars

\* A pass has closed the inactive session g1 and left g2, whose last
\* message is recent, open.
C15_Witness ==
    /\ sw.pc = "sleep"
    /\ games["g1"] # NoRow /\ games["g1"].status = "completed"
    /\ Len(Closures("g1")) = 1
    /\ games["g2"] # NoRow /\ games["g2"].status = "open"
    /\ Len(Closures("g2")) = 0

\* The messages of session g whose content is one of texts.
Recorded(g, texts) == SelectSeq(GameMsgs(g), LAMBDA m: m.type = "system" /\ m.content \in texts)

\* C16: the log of a session never holds two "Game started!" messages nor
\* two closure messages (narrator end or automatic closure), and
\* completed_at, once written, is not written again.
C16_TransitionsOnce ==
    [][\A g \in Games:
         /\ Len(Recorded(g, {"Game started!"})) <= 1
         /\ Len(Recorded(g, {"Game ended.", ClosureText})) <= 1
         /\ (games[g] # NoRow /\ games[g].completed_at # NoTime) =>
               ~(\/ \E p \in Slots: end_update(p) /\ req[p].game = g
                 \/ sweep_update /\ Head(sw.active) = g)]_vars

\* The agents holding a membership of session g with the narrator role.
Narrators(g) == {a \in Agents: players[g][a] # NoRow /\ players[g][a].role = "dm"}

\* C17: in every reachable state every existing session has exactly one
\* membership with the narrator role, held by the session's owner.
C17_OneNarrator ==
    \A g \in Games: games[g] # NoRow => Narrators(g) = {games[g].dm_id}

\* C18: a join creates its membership only while the number of active
\* non-narrator memberships of the session is below the configured
\* capacity, also when joins are handled concurrently; so the active
\* players never exceed the capacity, and a join that finds the session
\* full answers 400 and creates nothing.
C18_Capacity ==
    [][\A p \in Slots:
         LET r == req[p] IN
         /\ (r.op = "join" /\ r.pc = "insert" /\ players' # players) =>
               active_players(r.game) < games[r.game].config.max_players
         /\ (r.op = "join" /\ r.pc = "count" /\ req'[p] # r
               /\ active_players(r.game) >= games[r.game].config.max_players) =>
               /\ req'[p].pc = "done" /\ req'[p].code = 400
               /\ UNCHANGED <<players, messages, tokens>>]_vars

\* The answer the specification gives to a join of agent a to the existing
\* session g: the tests in their order, the capacity last.
JoinAnswer(g, a) ==
    IF games[g].status \in {"completed", "cancelled"} THEN 400
    ELSE IF games[g].status = "in_progress" /\ ~games[g].config.allow_mid_session_join
         THEN 400
    ELSE IF players[g][a] # NoRow /\ players[g][a].status = "kicked" THEN 403
    ELSE IF players[g][a] # NoRow THEN 409
    ELSE IF active_players(g) >= games[g].config.max_players THEN 400
    ELSE 200

\* C19: a join of an existing session is answered by the first test that
\* fails, in the order closed (400), no mid-session join (400), kicked
\* (403), already a member (409), full (400); a rejected join changes
\* neither roster nor log; an accepted join adds exactly one active player
\* membership and then exactly one system message.
C19_JoinChecks ==
    [][\A p \in Slots:
         LET r == req[p]
             g == r.game
             a == r.agent IN
         (r.op = "join" /\ req'[p] # r /\ games[g] # NoRow) =>
            /\ r.pc \in {"get_game", "existing", "count", "done"} =>
                  UNCHANGED <<games, players, messages, tokens>>
            /\ (r.pc \in {"get_game", "existing", "count"} /\ req'[p].pc = "done") =>
                  req'[p].code = JoinAnswer(g, a) /\ req'[p].code # 200
            /\ (r.pc = "count" /\ req'[p].pc # "done") => JoinAnswer(g, a) = 200
            /\ r.pc = "insert" =>
                  /\ JoinAnswer(g, a) = 200
                  /\ players' = [players EXCEPT ![g][a] =
                                    [role |-> "player", status |-> "active",
                                     session_token |-> players'[g][a].session_token,
                                     character_name |-> r.character]]
                  /\ active_players(g)' = active_players(g) + 1
                  /\ messages' = messages
            /\ r.pc = "post_message" =>
                  /\ players' = players
                  /\ Len(messages') = Len(messages) + 1
                  /\ SubSeq(messages', 1, Len(messages)) = messages
                  /\ messages'[Len(messages')].game_id = g
                  /\ messages'[Len(messages')].type = "system"
                  /\ req'[p].pc = "done" /\ req'[p].code = 200]_vars

\* A join by the kicked agent a1 to the completed session was answered 400,
\* the status being tested before the membership.
C19_Witness ==
    /\ req["r1"].op = "join" /\ req["r1"].pc = "done" /\ req["r1"].code = 400
    /\ req["r1"].agent = "a1"
    /\ games["g1"] # NoRow /\ games["g1"].status = "completed"
    /\ players["g1"]["a1"] # NoRow /\ players["g1"]["a1"].status = "kicked"

\* C20: a token issued by create, join or invite differs from every token
\* issued before it; the token check of a post passes only when the token
\* presented is the one of the caller's current membership in that
\* session, and otherwise answers 403; a message is appended for a post
\* only if its token is that of the caller's membership.
C20_Tokens ==
    [][/\ tokens' # tokens =>
            \E g \in Games, a \in Agents:
               /\ players[g][a] = NoRow /\ players'[g][a] # NoRow
               /\ players'[g][a].session_token = tokens'
               /\ tokens' \notin 1..tokens
               /\ \A h \in Games, b \in Agents:
                     players[h][b] # NoRow => players[h][b].session_token # tokens'
       /\ \A p \in Slots:
            LET r == req[p] IN
            /\ (r.op = "post" /\ r.pc = "validate_token" /\ req'[p] # r) =>
                  IF r.token # NoToken /\ r.token = held_token(r.game, r.agent)
                  THEN ~(req'[p].pc = "done" /\ req'[p].code = 403)
                  ELSE req'[p].pc = "done" /\ req'[p].code = 403 /\ messages' = messages
            /\ (r.op = "post" /\ messages' # messages) =>
                  r.token # NoToken /\ r.token = held_token(r.game, r.agent)]_vars

\* a1 left g1 and came back; its post presenting a token issued earlier,
\* which is not the token of its membership, was answered 403.
C20_Witness ==
    /\ req["r1"].op = "post" /\ req["r1"].pc = "done" /\ req["r1"].code = 403
    /\ req["r1"].agent = "a1" /\ req["r1"].game = "g1"
    /\ req["r1"].token \in 1..tokens
    /\ players["g1"]["a1"] # NoRow /\ players["g1"]["a1"].status = "active"
    /\ req["r1"].token # players["g1"]["a1"].session_token
    /\ \E i \in 1..Len(messages): messages[i].content = "a1 left the game."

\* The step appends exactly one system message to the log of session g.
OneSystemMessage(g) ==
    /\ Len(messages') = Len(messages) + 1
    /\ SubSeq(messages', 1, Len(messages)) = messages
    /\ messages'[Len(messages')].game_id = g
    /\ messages'[Len(messages')].type = "system"
    /\ messages'[Len(messages')].agent_id = None

\* C21: a leave by the narrator is answered 400 and a leave by a
\* non-member is rejected, both changing nothing; a leave by another
\* member deletes exactly its membership and then appends one system
\* message; no step changes the owner of a session or its narrator
\* membership.
C21_Leave ==
    [][/\ \A p \in Slots:
            LET r == req[p]
                g == r.game
                a == r.agent IN
            (r.op = "leave" /\ req'[p] # r /\ games[g] # NoRow) =>
               /\ r.pc \in {"get_game", "get_player", "done"} =>
                     UNCHANGED <<games, players, messages, tokens>>
               /\ r.pc = "get_player" =>
                     IF players[g][a] = NoRow
                     THEN req'[p].pc = "done" /\ req'[p].code \notin {0, 200}
                     ELSE IF players[g][a].role = "dm"
                     THEN req'[p].pc = "done" /\ req'[p].code = 400
                     ELSE req'[p].pc = "delete"
               /\ r.pc = "delete" =>
                     /\ players[g][a] # NoRow /\ players[g][a].role # "dm"
                     /\ players' = [players EXCEPT ![g][a] = NoRow]
                     /\ UNCHANGED <<games, messages>>
               /\ r.pc = "post_message" =>
                     /\ OneSystemMessage(g) /\ UNCHANGED <<games, players>>
                     /\ req'[p].pc = "done" /\ req'[p].code = 200
       /\ \A g \in Games:
            games[g] # NoRow =>
               /\ games'[g] # NoRow /\ games'[g].dm_id = games[g].dm_id
               /\ \A a \in Agents:
                     (players[g][a] # NoRow /\ players[g][a].role = "dm") =>
                        players'[g][a] = players[g][a]]_vars

\* After a1 left, the narrator's own leave was answered 400 and the
\* narrator is still a member.
C21_Witness ==
    /\ req["r1"].op = "leave" /\ req["r1"].pc = "done" /\ req["r1"].code = 400
    /\ req["r1"].agent = "dm" /\ Narrators("g1") = {"dm"}
    /\ players["g1"]["a1"] = NoRow
    /\ \E i \in 1..Len(messages): messages[i].content = "a1 left the game."

\* C22: start and end are answered 403 to a caller that is not the
\* narrator and 400 in a wrong status (start: not open; end: neither open
\* nor in_progress), changing nothing; otherwise start sets in_progress
\* and end sets completed, and each then appends one system message.
C22_StartEnd ==
    [][\A p \in Slots:
         LET r == req[p]
             g == r.game
             from == IF r.op = "start" THEN {"open"} ELSE {"open", "in_progress"}
             to == IF r.op = "start" THEN "in_progress" ELSE "completed" IN
         (r.op \in {"start", "end"} /\ req'[p] # r /\ games[g] # NoRow) =>
            /\ r.pc \in {"verify_dm", "verified", "done"} =>
                  UNCHANGED <<games, players, messages, tokens>>
            /\ r.pc = "verify_dm" =>
                  IF games[g].dm_id # r.agent
                  THEN req'[p].pc = "done" /\ req'[p].code = 403
                  ELSE req'[p].pc = "verified"
            /\ r.pc = "verified" =>
                  IF games[g].status \notin from
                  THEN req'[p].pc = "done" /\ req'[p].code = 400
                  ELSE req'[p].pc = "update"
            /\ r.pc = "update" =>
                  /\ games[g].dm_id = r.agent /\ games[g].status \in from
                  /\ games'[g].status = to
                  /\ games'[g].config = games[g].config
                  /\ games'[g].created_at = games[g].created_at
                  /\ UNCHANGED <<players, messages>>
            /\ r.pc = "post_message" =>
                  /\ OneSystemMessage(g) /\ UNCHANGED <<games, players>>
                  /\ req'[p].pc = "done" /\ req'[p].code = 200]_vars

\* The narrator started and ended the game; its second start was answered
\* 400 and the game is still completed.
C22_Witness ==
    /\ req["r1"].op = "start" /\ req["r1"].pc = "done" /\ req["r1"].code = 400
    /\ req["r1"].agent = "dm" /\ games["g1"].status = "completed"
    /\ Len(Recorded("g1", {"Game started!"})) = 1
    /\ Len(Recorded("g1", {"Game ended."})) = 1

\* C23: a mute changes the roster only by turning the active player
\* membership of its target into muted, an unmute only by turning the
\* muted player membership of its target into active; with any other
\* target (kicked, the narrator, no membership) no membership changes.
C23_MuteUnmute ==
    [][\A p \in Slots:
         LET r == req[p]
             g == r.game
             t == r.target
             from == IF r.op = "mute" THEN "active" ELSE "muted"
             to == IF r.op = "mute" THEN "muted" ELSE "active"
             applies == /\ players[g][t] # NoRow /\ players[g][t].role = "player"
                        /\ players[g][t].status = from IN
         (r.op \in {"mute", "unmute"} /\ req'[p] # r /\ games[g] # NoRow) =>
            IF r.pc = "verified" /\ applies
            THEN players' = [players EXCEPT ![g][t].status = to]
            ELSE players' = players]_vars

\* The narrator's unmute of the kicked a1 was carried out and a1 is still
\* kicked.
C23_Witness ==
    /\ req["r1"].op = "unmute" /\ req["r1"].pc = "done" /\ req["r1"].code = 200
    /\ req["r1"].target = "a1"
    /\ players["g1"]["a1"] # NoRow /\ players["g1"]["a1"].status = "kicked"
    /\ \E i \in 1..Len(messages): messages[i].content = "a1 was unmuted."

\* C24: a kick by the narrator of a target with a player membership sets
\* that membership to kicked and then appends one system message naming
\* the target; a kick of any other target is rejected and changes
\* nothing; every post by an agent kicked from the session is answered
\* 403 and appends nothing.
C24_Kick ==
    [][\A p \in Slots:
         LET r == req[p]
             g == r.game
             t == r.target IN
         /\ (r.op = "kick" /\ req'[p] # r /\ games[g] # NoRow /\ games[g].dm_id = r.agent) =>
               /\ r.pc \in {"verify_dm", "verified", "done"} =>
                     UNCHANGED <<games, players, messages, tokens>>
               /\ r.pc = "verified" =>
                     IF players[g][t] # NoRow /\ players[g][t].role = "player"
                     THEN req'[p].pc = "update"
                     ELSE req'[p].pc = "done" /\ req'[p].code \notin {0, 200}
               /\ r.pc = "update" =>
                     /\ players' = [players EXCEPT ![g][t].status = "kicked"]
                     /\ UNCHANGED <<games, messages>>
               /\ r.pc = "post_message" =>
                     /\ OneSystemMessage(g) /\ UNCHANGED <<games, players>>
                     /\ messages'[Len(messages')].content = t \o " was kicked from the game."
                     /\ req'[p].pc = "done" /\ req'[p].code = 200
         /\ (r.op = "post" /\ r.pc = "get_player" /\ req'[p] # r
               /\ <<g, r.agent>> \in kicked) =>
               /\ req'[p].pc = "done" /\ req'[p].code = 403
               /\ messages' = messages]_vars

\* C25: an invitation by the narrator of a registered agent without a
\* membership in the session creates an active player membership for it,
\* whatever the capacity, the status and the mid-session-join setting, and
\* then appends one system message; an invitation of an agent that has a
\* membership of any status is answered 409 and changes nothing.
C25_Invite ==
    [][\A p \in Slots:
         LET r == req[p]
             g == r.game
             t == r.target IN
         (r.op = "invite" /\ req'[p] # r /\ games[g] # NoRow /\ games[g].dm_id = r.agent) =>
            /\ r.pc \in {"verify_dm", "verified", "existing", "done"} =>
                  UNCHANGED <<games, players, messages, tokens>>
            /\ r.pc = "verify_dm" => req'[p].pc = "verified"
            /\ r.pc = "verified" => req'[p].pc = "existing"
            /\ r.pc = "existing" =>
                  IF players[g][t] # NoRow
                  THEN req'[p].pc = "done" /\ req'[p].code = 409
                  ELSE req'[p].pc = "insert"
            /\ r.pc = "insert" =>
                  /\ players[g][t] = NoRow
                  /\ players' = [players EXCEPT ![g][t] =
                                    [role |-> "player", status |-> "active",
                                     session_token |-> tokens',
                                     character_name |-> None]]
                  /\ UNCHANGED <<games, messages>>
            /\ r.pc = "post_message" =>
                  /\ OneSystemMessage(g) /\ UNCHANGED <<games, players>>
                  /\ req'[p].pc = "done" /\ req'[p].code = 200]_vars

\* The narrator invited a2 into the started game that admits one player
\* and no mid-session join and already had the player a1.
C25_Witness ==
    /\ req["r1"].op = "invite" /\ req["r1"].pc = "done" /\ req["r1"].code = 200
    /\ req["r1"].target = "a2"
    /\ games["g1"].status = "in_progress"
    /\ ~games["g1"].config.allow_mid_session_join
    /\ players["g1"]["a2"] # NoRow /\ players["g1"]["a2"].status = "active"
    /\ active_players("g1") > games["g1"].config.max_players

\* C26: kick, mute, unmute, invite and update_config called by an agent
\* that is not the narrator of the session are answered 403 at their
\* first step and change neither status, config, roster nor log.
C26_NarratorOnly ==
    [][\A p \in Slots:
         LET r == req[p]
             g == r.game IN
         (r.op \in {"kick", "mute", "unmute", "invite", "config"} /\ req'[p] # r
            /\ games[g] # NoRow /\ games[g].dm_id # r.agent) =>
            /\ UNCHANGED <<games, players, messages, tokens>>
            /\ r.pc \in {"verify_dm", "done"}
            /\ r.pc = "verify_dm" => req'[p].pc = "done" /\ req'[p].code = 403
            /\ r.pc = "done" => r.code = 403]_vars

\* The player a1 asked to kick the narrator and was answered 403.
C26_Witness ==
    /\ req["r1"].op = "kick" /\ req["r1"].pc = "done" /\ req["r1"].code = 403
    /\ req["r1"].agent = "a1" /\ req["r1"].target = "dm"
    /\ players["g1"]["a1"] # NoRow /\ players["g1"]["a1"].status = "active"
    /\ Narrators("g1") = {"dm"}

\* The answer the specification gives to the post r: that of the first
\* check that fails, in the order of the specification, 200 when none does.
\* The image fields that pass the moderation: none, or an https URL of a
\* public host.
CleanImages == {NoImage, "https://example.com/map.png"}

PostAnswer(r) ==
    LET g == r.game
        row == players[g][r.agent] IN
    IF games[g] = NoRow THEN 404
    ELSE IF row = NoRow \/ row.status \in {"muted", "kicked"} THEN 403
    ELSE IF r.token = NoToken \/ r.token # row.session_token THEN 403
    ELSE IF r.typ \notin VALID_MSG_TYPES THEN 400
    ELSE IF r.typ \in {"narrative", "system"} /\ row.role # "dm" THEN 403
    ELSE IF games[g].status = "open" /\ r.typ \notin {"ooc", "sheet"} THEN 400
    ELSE IF r.content \in BlockedContents \/ r.image_url \notin CleanImages THEN 422
    ELSE IF r.after # NoId /\ Head_(g) # NoId /\ Head_(g) # r.after THEN 409
    ELSE 200

\* C27: a rejected post is answered with the code of the first failing
\* check in the order session (404), membership (403), token (403), type
\* (400), narrator-only type (403), pre-start restriction (400),
\* moderation of the text and of the image URL (422), staleness (409); the checks change nothing, and a
\* message is appended only when no check fails.
C27_PostChecks ==
    [][\A p \in Slots:
         LET r == req[p] IN
         (r.op = "post" /\ req'[p] # r) =>
            /\ r.pc \in {"get_game", "get_player", "validate_token", "staleness", "done"} =>
                  UNCHANGED <<games, players, messages, tokens>>
            /\ (r.pc \in {"get_game", "get_player", "validate_token", "staleness"}
                  /\ req'[p].pc = "done") =>
                  req'[p].code = PostAnswer(r) /\ req'[p].code # 200
            /\ r.pc = "post_message" =>
                  /\ PostAnswer(r) = 200
                  /\ Len(messages') = Len(messages) + 1]_vars

\* A post of a1 in the open game that fails the pre-start restriction,
\* the moderation and the staleness check was answered 400, and nothing
\* was appended after the message that made it stale.
C27_Witness ==
    /\ req["r1"].op = "post" /\ req["r1"].pc = "done" /\ req["r1"].code = 400
    /\ req["r1"].agent = "a1" /\ req["r1"].typ = "action"
    /\ req["r1"].content = "slur" /\ req["r1"].after = 1
    /\ req["r1"].token = held_token("g1", "a1")
    /\ games["g1"].status = "open" /\ Len(messages) = 2

\* The post r has passed the checks that come before the pre-start
\* restriction: membership, token, type, narrator-only type.
PassedEarlier(r) ==
    LET row == players[r.game][r.agent] IN
    /\ row # NoRow /\ row.status = "active"
    /\ r.token # NoToken /\ r.token = row.session_token
    /\ r.typ \in VALID_MSG_TYPES
    /\ r.typ \in {"narrative", "system"} => row.role = "dm"

\* C28 as first stated, for the callers that hold an active membership
\* and present its token: a post of a type other than ooc or sheet that is
\* answered while the session is open is answered 400.
C28_Always400 ==
    \A p \in Slots:
       LET r == req[p]
           row == players[r.game][r.agent] IN
       ( /\ r.op = "post" /\ r.pc = "done"
         /\ games[r.game] # NoRow /\ games[r.game].status = "open"
         /\ row # NoRow /\ row.status = "active"
         /\ r.token # NoToken /\ r.token = row.session_token
         /\ r.typ \notin {"ooc", "sheet"} ) => r.code = 400

\* C28: while the session is open no post of a type other than ooc or
\* sheet is appended, and such a post that passes the earlier checks is
\* answered 400, whoever the caller; an ooc or sheet post of an active
\* member with clean content and image and no stale id is accepted; in an
\* in_progress session the type alone rejects no post.
C28_PreStart ==
    [][\A p \in Slots:
         LET r == req[p]
             g == r.game
             fresh == r.after = NoId \/ Head_(g) = NoId \/ Head_(g) = r.after IN
         (r.op = "post" /\ req'[p] # r /\ games[g] # NoRow) =>
            /\ (games[g].status = "open" /\ r.typ \notin {"ooc", "sheet"}) =>
                  /\ messages' = messages
                  /\ r.pc # "post_message"
                  /\ (r.pc = "validate_token" /\ PassedEarlier(r)) =>
                        req'[p].pc = "done" /\ req'[p].code = 400
            /\ (r.pc = "validate_token" /\ PassedEarlier(r)
                  /\ r.content \notin BlockedContents /\ r.image_url \in CleanImages
                  /\ fresh
                  /\ (games[g].status = "in_progress" \/ r.typ \in {"ooc", "sheet"})) =>
                  req'[p].pc # "done"
            /\ (r.pc = "staleness" /\ fresh) => req'[p].pc = "post_message"
            /\ r.pc = "post_message" => Len(messages') = Len(messages) + 1]_vars

\* a1 posted a sheet in the open game, and its action post was then
\* answered 400.
C28_Witness ==
    /\ req["r1"].op = "post" /\ req["r1"].pc = "done" /\ req["r1"].code = 400
    /\ req["r1"].agent = "a1" /\ req["r1"].typ = "action" /\ req["r1"].content = "hi"
    /\ req["r1"].token = held_token("g1", "a1") /\ req["r1"].token # NoToken
    /\ games["g1"].status = "open"
    /\ Len(messages) = 3 /\ messages[3].type = "sheet" /\ messages[3].agent_id = "a1"

\* C29: a narrative post by the narrator of an open session, carrying the
\* token of the narrator's membership, clean content and no message id
\* seen last, passes the checks and is appended.
C29_NarratorBeforeStart ==
    [][\A p \in Slots:
         LET r == req[p]
             g == r.game IN
         (r.op = "post" /\ r.pc = "validate_token" /\ req'[p] # r
            /\ games[g] # NoRow /\ games[g].status = "open"
            /\ games[g].dm_id = r.agent /\ r.typ = "narrative"
            /\ PassedEarlier(r) /\ r.content = "hi" /\ r.after = NoId) =>
            req'[p].pc = "post_message"]_vars

\* The contents of the model that are JSON objects with a narration field.
NarrationJson == {"J_full", "J_narr"}

\* The normalisation may apply to the post r: the caller is the narrator,
\* the type is narrative or system, the content is such a JSON object.
Normalised(r) ==
    /\ players[r.game][r.agent] # NoRow /\ players[r.game][r.agent].role = "dm"
    /\ r.typ \in {"narrative", "system"}
    /\ r.content \in NarrationJson

\* C30 as first stated: outside the normalisation the stored metadata
\* equal the submitted ones, whatever they are.
C30_StoredAsSubmitted ==
    [][\A p \in Slots:
         LET r == req[p] IN
         (r.op = "post" /\ req'[p] # r /\ r.pc = "post_message" /\ ~Normalised(r)) =>
            /\ Len(messages') = Len(messages) + 1
            /\ messages'[Len(messages')].content = r.content
            /\ messages'[Len(messages')].metadata = r.metadata]_vars

\* C30: the message stored for a post carries the submitted content and
\* metadata (an empty metadata object is stored as none), and the post
\* appends nothing else, unless the caller is the
\* narrator, the type narrative or system and the content a JSON object
\* with a narration field; then the narration is stored.
C30_NormalisationScope ==
    [][\A p \in Slots:
         LET r == req[p] IN
         (r.op = "post" /\ req'[p] # r) =>
            /\ r.pc = "post_message" =>
                  /\ Len(messages') = Len(messages) + 1
                  /\ IF Normalised(r)
                     THEN messages'[Len(messages')].content = json_loads(r.content).narration
                     ELSE /\ messages'[Len(messages')].content = r.content
                          /\ messages'[Len(messages')].metadata =
                                IF r.metadata = Meta({}, <<>>) THEN NoMeta ELSE r.metadata
                          /\ req'[p].pc = "done"
            /\ r.pc \in {"whisper", "whisper_post"} => Normalised(r)]_vars

\* The player a1 posted, as an action of the started game, a JSON object
\* with narration and whispers; it was stored as submitted, alone.
C30_Witness ==
    /\ req["r1"].op = "post" /\ req["r1"].pc = "done" /\ req["r1"].code = 200
    /\ req["r1"].agent = "a1" /\ req["r1"].typ = "action" /\ req["r1"].content = "J_full"
    /\ Len(messages) = 4 /\ messages[4].content = "J_full" /\ messages[4].agent_id = "a1"
    /\ req["r1"].metadata = Meta({"respond"}, <<"Vex">>)
    /\ messages[4].metadata = Meta({"respond"}, <<"Vex">>)

\* The agents of session g playing one of the characters named.
Playing(g, names) ==
    {a \in Agents: /\ players[g][a] # NoRow
                   /\ \E i \in 1..Len(names): players[g][a].character_name = names[i]}

\* C31: a narrative post of the narrator whose content is a JSON object
\* with a narration field is stored with the narration as content and the
\* payload's respond list as metadata.respond; each whisper entry with a
\* text and a target played in the session is then appended as a message
\* addressed to the agents playing the named characters, which only its
\* author and those agents can see.
C31_Narration ==
    [][\A p \in Slots:
         LET r == req[p]
             g == r.game IN
         (r.op = "post" /\ req'[p] # r /\ Normalised(r)) =>
            /\ r.pc = "post_message" =>
                  /\ Len(messages') = Len(messages) + 1
                  /\ messages'[Len(messages')].content = json_loads(r.content).narration
                  /\ json_loads(r.content).respond # <<>> =>
                        /\ "respond" \in messages'[Len(messages')].metadata.keys
                        /\ messages'[Len(messages')].metadata.respond =
                              json_loads(r.content).respond
                  /\ messages'[Len(messages')].to_agents = {}
            /\ (r.pc = "whisper" /\ Head(r.whispers).content # ""
                  /\ Playing(g, Head(r.whispers).to) # {}) =>
                  /\ req'[p].pc = "whisper_post"
                  /\ req'[p].ids = Playing(g, Head(r.whispers).to)
            /\ r.pc = "whisper_post" =>
                  /\ Len(messages') = Len(messages) + 1
                  /\ messages'[Len(messages')].content = Head(r.whispers).content
                  /\ messages'[Len(messages')].agent_id = r.agent
                  /\ messages'[Len(messages')].to_agents = Playing(g, Head(r.whispers).to)
                  /\ \A a \in Requesters:
                        can_see_whisper(messages'[Len(messages')], a) <=>
                           (a = r.agent \/ a \in Playing(g, Head(r.whispers).to))]_vars

\* C32: a completed session on which no request and no sweeper pass is at
\* work has a closure message in its log, also after a pass that failed.
C32_ClosureRecorded ==
    \A g \in Games:
       ( /\ games[g] # NoRow /\ games[g].status = "completed"
         /\ sw.pc = "sleep"
         /\ \A p \in Slots: req[p].pc \in {"idle", "done"} ) =>
       Len(Recorded(g, {"Game ended.", ClosureText})) >= 1

\* C33: a stored message has content_type "system" only if it has no
\* author, and every message with an author has content_type
\* "user_generated".
C33_ContentType ==
    \A i \in 1..Len(messages):
       /\ content_type(messages[i].type) = "system" => messages[i].agent_id = None
       /\ messages[i].agent_id # None => content_type(messages[i].type) = "user_generated"

\* C34: the sweeper writes the status completed only for a session that,
\* at the moment of the write, is open or in_progress and whose most recent
\* message (its creation, if it has none) is at least the timeout old.
C34_SweepWrite ==
    [][(sw.pc = "update" /\ sw'.pc = "post_message") =>
          Inactive(Head(sw.active), now)]_vars

\* C35: with a positive timeout and a fair sweeper loop, a session that is
\* open or in_progress and whose most recent message is at least the
\* timeout old does not stay so: it is completed, unless a further message
\* arrives; exceptions raised while a pass handles another session do not
\* prevent this.
C35_IdleClosed ==
    \A g \in Games \ {FailingSession}:
       (Timeout > 0 /\ Inactive(g, now)) ~>
          ((games[g] # NoRow /\ games[g].status = "completed") \/ ~Inactive(g, now))

\* C36: with a fixed config and no invite, the active non-narrator
\* memberships of a session never exceed its capacity, whatever joins,
\* leaves, kicks, mutes and unmutes are handled.
C36_Seats ==
    \A g \in Games:
       games[g] # NoRow => active_players(g) <= games[g].config.max_players

\* C37: a membership with the narrator role has status active and is
\* left as it is by every step: no kick, mute, unmute or leave removes or
\* changes it.
C37_NarratorKept ==
    [][\A g \in Games: \A a \in Narrators(g):
         /\ players[g][a].status = "active"
         /\ players'[g][a] = players[g][a]]_vars

\* the narrator was the target of a mute that was carried out, and of
\* nothing else; its membership is as it was
C37_Witness ==
    /\ req["r1"].op = "mute" /\ req["r1"].pc = "done" /\ req["r1"].code = 200
    /\ req["r1"].agent = "dm" /\ req["r1"].target = "dm"
    /\ players["g1"]["dm"] # NoRow /\ players["g1"]["dm"].role = "dm"
    /\ players["g1"]["dm"].status = "active"
    /\ \E i \in 1..Len(messages): messages[i].content = "dm was muted."

\* C38: in a completed session a post that passes every check is accepted
\* and appended; a kick, mute, unmute or invite by the narrator changes the
\* target's membership as in a session that is not closed, and a player
\* may leave; a join, a start and an end are answered 400 and change
\* nothing.
C38_ClosedWritable ==
    [][\A p \in Slots:
         LET r == req[p]
             g == r.game
             t == r.target IN
         (req'[p] # r /\ r.op # "" /\ r.pc # "done"
             /\ games[g] # NoRow /\ games[g].status = "completed") =>
            /\ r.op = "post" =>
                  /\ (r.pc \in {"get_game", "get_player", "validate_token", "staleness"}
                        /\ PostAnswer(r) = 200) => req'[p].pc # "done"
                  /\ r.pc = "post_message" =>
                        /\ Len(messages') = Len(messages) + 1
                        /\ messages'[Len(messages')].agent_id = r.agent
                        /\ messages'[Len(messages')].game_id = g
                        /\ messages'[Len(messages')].type = r.typ
                        /\ req'[p].pc = "done" /\ req'[p].code = 200
            /\ (r.op \in {"kick", "mute", "unmute", "invite"} /\ r.pc = "verify_dm"
                  /\ games[g].dm_id = r.agent) => req'[p].pc = "verified"
            /\ (r.op = "kick" /\ players[g][t] # NoRow /\ players[g][t].role = "player") =>
                  /\ r.pc = "verified" => req'[p].pc = "update"
                  /\ r.pc = "update" => players'[g][t].status = "kicked"
            /\ (r.op = "mute" /\ r.pc = "verified" /\ players[g][t] # NoRow
                  /\ players[g][t].role = "player" /\ players[g][t].status = "active") =>
                  players'[g][t].status = "muted"
            /\ (r.op = "unmute" /\ r.pc = "verified" /\ players[g][t] # NoRow
                  /\ players[g][t].role = "player" /\ players[g][t].status = "muted") =>
                  players'[g][t].status = "active"
            /\ (r.op = "invite" /\ players[g][t] = NoRow) =>
                  /\ r.pc = "verified" => req'[p].pc = "existing"
                  /\ r.pc = "existing" => req'[p].pc = "insert"
                  /\ r.pc = "insert" =>
                        players'[g][t] # NoRow /\ players'[g][t].status = "active"
            /\ (r.op = "leave" /\ players[g][r.agent] # NoRow
                  /\ players[g][r.agent].role = "player") =>
                  /\ r.pc = "get_game" => req'[p].pc = "get_player"
                  /\ r.pc = "get_player" => req'[p].pc = "delete"
                  /\ r.pc = "delete" => players'[g][r.agent] = NoRow
            /\ (r.op = "join" /\ r.pc = "get_game") =>
                  /\ req'[p].pc = "done" /\ req'[p].code = 400
                  /\ UNCHANGED <<games, players, messages, tokens>>
            /\ (r.op \in {"start", "end"} /\ r.pc = "verified") =>
                  /\ req'[p].pc = "done" /\ req'[p].code = 400
                  /\ UNCHANGED <<games, players, messages, tokens>>]_vars

\* after the narrator ended the session, a1 posted an action and was then
\* kicked
C38_Witness ==
    /\ games["g1"] # NoRow /\ games["g1"].status = "completed"
    /\ req["r1"].op = "kick" /\ req["r1"].pc = "done" /\ req["r1"].code = 200
    /\ players["g1"]["a1"] # NoRow /\ players["g1"]["a1"].status = "kicked"
    /\ \E i, j \in 1..Len(messages):
          /\ i < j /\ messages[i].content = "Game ended."
          /\ messages[j].agent_id = "a1" /\ messages[j].type = "action"

\* C39: when create, join or invite has answered 200, the active
\* membership it created (the caller's for create and join, the target's
\* for invite) has the token that the response carries.
C39_TokenGiven ==
    \A p \in Slots:
       LET r == req[p]
           who == IF r.op = "invite" THEN r.target ELSE r.agent IN
       ( /\ r.pc = "done" /\ r.code = 200 /\ r.op \in {"create", "join", "invite"}
         /\ players[r.game][who] # NoRow /\ players[r.game][who].status = "active" ) =>
       session_token_in_response(r) = players[r.game][who].session_token

\* The texts of the whispers in the payloads posted.
WhisperTexts == {"Nobody hears this.", "Something watches you."}

\* C40: a whisper extracted from a narration is stored only as a message
\* addressed to members of that session's roster: a whisper with an empty
\* text or target list, or with no target name carried by a membership of
\* the session, has no message posted for it; any other is appended with a
\* non-empty to_agents holding only agents with a membership of the session.
C40_WhisperPrivate ==
    [][\A p \in Slots:
         LET r == req[p]
             g == r.game
             m == messages'[Len(messages')] IN
         (r.op = "post" /\ req'[p] # r) =>
            /\ r.pc = "whisper" =>
                  /\ messages' = messages
                  /\ ( \/ Head(r.whispers).content = ""
                       \/ Head(r.whispers).to = <<>>
                       \/ Playing(g, Head(r.whispers).to) = {} ) =>
                        req'[p].pc # "whisper_post"
            /\ r.pc = "whisper_post" =>
                  /\ Len(messages') = Len(messages) + 1
                  /\ m.game_id = g /\ m.content = Head(r.whispers).content
                  /\ m.to_agents # {}
                  /\ m.to_agents \subseteq {a \in Agents: players[g][a] # NoRow}
            /\ (Len(messages') > Len(messages) /\ m.content \in WhisperTexts) =>
                  m.to_agents # {}]_vars

\* the narrator posted a payload whose three whispers were all dropped,
\* then one whose whisper to Rook was stored for a1, who plays Rook
C40_Witness ==
    /\ req["r1"].op = "post" /\ req["r1"].pc = "done" /\ req["r1"].code = 200
    /\ req["r1"].content = "J_full"
    /\ players["g1"]["a2"] = NoRow
    /\ Len(messages) = 6
    /\ messages[4].content = "The lights die." /\ messages[5].content = "The lights die."
    /\ messages[6].content = "Something watches you." /\ messages[6].to_agents = {"a1"}

====
